---- MODULE Spec2Model ----
(***************************************************************************)
(* Model of src/src/account.ts (EthereumAccount): the per-account state    *)
(* machine of the Ethereum payment-channel settlement plugin.              *)
(*                                                                         *)
(* Amounts are BigNumbers in the source (no overflow).  Balances and       *)
(* packet amounts are gwei, channel values and claims are wei.  TLC's      *)
(* integers are 32 bit, so every wei amount of the model stays at or below *)
(* MaxChannelValue = 2 gwei and channel values move in steps of half a     *)
(* gwei, which makes the wei -> gwei conversion round.                     *)
(*                                                                         *)
(* ReducerQueue (./utils/queue) and the channel helpers (./utils/channel)  *)
(* are imported by account.ts and are modelled from the specification.     *)
(***************************************************************************)
EXTENDS Integers, Sequences, FiniteSets, TLC

VARIABLES
    \* ---- outgoing side of the account "alice"
    payableBalance,   \* account.payableBalance (gwei)
    payoutAmount,     \* account.payoutAmount (gwei)
    ethereumAddress,  \* account.ethereumAddress ("" = undefined)
    outgoing,         \* account.outgoing: [state, queue]
    outRun,           \* the reducer running on account.outgoing (its frame)
    depositQueue,     \* this.depositQueue: [exists, state, queue]
    orphanQueues,     \* side queues overwritten in this.depositQueue with work pending
    lastSent,         \* the last claim handed to sendClaim
    \* ---- shared
    chain,            \* on-chain channels: channelId -> channel or absent
    txLog,            \* transactions submitted through master._queueTransaction
    store,            \* master._store: "<channelId>:incoming-channel" -> accountName
    \* ---- incoming side, per account
    incoming,         \* account.incoming: [state, queue]
    inRun,            \* the reducer running on account.incoming (its frame)
    receivableBalance,\* account.receivableBalance (gwei)
    watcher,          \* this.watcher and the interval timer behind it
    polls,            \* out-of-queue pollers: checkForDeposit, watcher ticks
    \* ---- forwarding hooks
    inflight          \* inbound PREPAREs: those waiting for the data handler
                      \* (packets) and the cycle handled last (last)

outVars == <<payableBalance, payoutAmount, ethereumAddress, outgoing, outRun,
             depositQueue, orphanQueues, lastSent>>
inVars == <<incoming, inRun, receivableBalance, watcher, polls>>
vars == <<payableBalance, payoutAmount, ethereumAddress, outgoing, outRun,
          depositQueue, orphanQueues, lastSent, chain, txLog, store,
          incoming, inRun, receivableBalance, watcher, polls, inflight>>

----------------------------------------------------------------------------
\* Units (@kava-labs/crypto-rate-utils): 1 gwei = 10^9 wei

WeiPerGwei == 1000000000
HalfGwei == WeiPerGwei \div 2
QuarterGwei == WeiPerGwei \div 4

\* The largest channel value of the model: 2 gwei, within TLC's integers.
MaxChannelValue == 2 * WeiPerGwei

\* convert(gwei(x), wei())
GweiToWei(g) == g * WeiPerGwei

\* convert(wei(x), gwei()).decimalPlaces(0, BigNumber.ROUND_DOWN): towards zero
WeiToGweiDown(w) == IF w >= 0 THEN w \div WeiPerGwei ELSE -((-w) \div WeiPerGwei)

BigMin(a, b) == IF a <= b THEN a ELSE b
BigMax(a, b) == IF a >= b THEN a ELSE b

\* String.prototype.toLowerCase on the addresses of the model
ToLowerCase(s) ==
    CASE s = "0xAA" -> "0xaa"
      [] s = "0xBB" -> "0xbb"
      [] s = "0xME" -> "0xme"
      [] OTHER -> s

----------------------------------------------------------------------------
\* Bounds of the model

MaxQueue == 2        \* reducers pending on the outgoing queue and its side queues
MaxOwed == 1         \* cap on payableBalance and on the backlog beyond it (gwei)
MaxInQueue == 1      \* reducers pending on one incoming queue
MaxPrepaid == 1      \* cap on how far receivableBalance goes below zero (gwei)
MaxInflight == 2     \* inbound PREPAREs waiting for the data handler at once
MaxPending == 3      \* reducers pending on the incoming queue where its order is studied

\* Configuration (master._*)
outgoingChannelAmount == WeiPerGwei
minIncomingChannelAmount == HalfGwei
walletAddress == "0xME"
contractAddress == "0xcontract"
maxPacketAmount == 2        \* gwei
maxBalance == 3             \* gwei

Accounts == {"alice", "bob"}
Self == "alice"

----------------------------------------------------------------------------
\* Channels and claims

NoSignature == [signer |-> "", contractAddress |-> "", channelId |-> "", value |-> 0]

\* undefined, in the shape of a channel so that TLC can compare it
undefined ==
    [channelId |-> "", contractAddress |-> "", sender |-> "", receiver |-> "",
     value |-> 0, disputePeriod |-> 0, disputed |-> FALSE,
     spent |-> 0, signature |-> NoSignature]

IsDefined(c) == c.channelId # ""

\* utils/channel remainingInChannel: value - spent
remainingInChannel(c) == c.value - c.spent

\* utils/channel spentFromChannel: the spent of the latest claim
spentFromChannel(c) == c.spent

\* utils/channel hasClaim: defined and signed
hasClaim(c) == IsDefined(c) /\ c.signature # NoSignature

\* utils/channel isDisputed: disputedUntil is set
isDisputed(c) == c.disputed

\* secp256k1 signature over createPaymentDigest(contractAddress, channelId, value)
SignDigest(signer, contract, id, value) ==
    [signer |-> signer, contractAddress |-> contract, channelId |-> id, value |-> value]

\* a signClaim that signs the digest of the claim before this one
SignsPreviousValue(value, cachedChannel) ==
    [cachedChannel EXCEPT
        !.spent = value,
        !.signature = SignDigest(walletAddress, cachedChannel.contractAddress,
                                 cachedChannel.channelId, cachedChannel.spent)]

\* signClaim: the channel with spent = value and the flat signature
signClaim(value, cachedChannel) ==
    [cachedChannel EXCEPT
        !.spent = value,
        !.signature = SignDigest(walletAddress, cachedChannel.contractAddress,
                                 cachedChannel.channelId, value)]

\* sendClaim: the serialized claim put on the wire
SerializedClaim(c) ==
    [channelId |-> c.channelId, signature |-> c.signature,
     value |-> c.spent, contractAddress |-> c.contractAddress]

NoClaim == SerializedClaim(undefined)

\* the on-chain view of a channel: fetchChannel returns these fields or undefined
OutChannelIds == {"o1"}
InChannelIds == {"c1", "c2"}
ChannelIds == OutChannelIds \cup InChannelIds

\* utils/channel fetchChannel(contract, channelId)
fetchChannel(id) ==
    IF IsDefined(chain[id])
    THEN [chain[id] EXCEPT !.spent = 0, !.signature = NoSignature]
    ELSE undefined

\* utils/channel updateChannel(contract, cachedChannel): the cached channel
\* with the on-chain fields refreshed, undefined if the channel is gone
updateChannel(cachedChannel) ==
    IF IsDefined(chain[cachedChannel.channelId])
    THEN [cachedChannel EXCEPT
            !.value = chain[cachedChannel.channelId].value,
            !.sender = chain[cachedChannel.channelId].sender,
            !.receiver = chain[cachedChannel.channelId].receiver,
            !.disputePeriod = chain[cachedChannel.channelId].disputePeriod,
            !.disputed = chain[cachedChannel.channelId].disputed]
    ELSE undefined

----------------------------------------------------------------------------
\* ReducerQueue

\* an add that queues every reducer at the back, whatever its priority
AddsAtTheBack(queue, task) == Append(queue, task)

\* add(reducer, priority): behind every pending entry of equal or higher priority
RECURSIVE QueueInsert(_, _)
QueueInsert(queue, task) ==
    IF queue = <<>> THEN <<task>>
    ELSE IF Head(queue).priority >= task.priority
         THEN <<Head(queue)>> \o QueueInsert(Tail(queue), task)
         ELSE <<task>> \o queue

Task(kind) ==
    [kind |-> kind, priority |-> 0, value |-> 0, claim |-> NoClaim, arg |-> "",
     channel |-> undefined, requireDisputed |-> FALSE]

NewQueue(state) == [state |-> state, queue |-> <<>>]

QueueAdd(q, task) == [q EXCEPT !.queue = QueueInsert(q.queue, task)]

NoQueue == [exists |-> FALSE, state |-> undefined, queue |-> <<>>]

\* new ReducerQueue(state)
SideQueue(state) == [exists |-> TRUE, state |-> state, queue |-> <<>>]

----------------------------------------------------------------------------
\* Outgoing settlement engine

IdleRun ==
    [pc |-> "idle", value |-> 0, channel |-> undefined, updated |-> undefined,
     side |-> NoQueue, failed |-> "", authorize |-> ""]

\* reducers pending on the outgoing queue and on every side queue
RECURSIVE SidePending(_)
SidePending(qs) ==
    IF qs = <<>> THEN 0 ELSE Len(Head(qs).queue) + SidePending(Tail(qs))

PendingOut ==
    Len(outgoing.queue) + Len(depositQueue.queue) + Len(outRun.side.queue)
        + SidePending(orphanQueues)

\* createClaim, lines 515-531: is a claim signed at all
CanCreateClaim(cachedChannel, payout) ==
    /\ GweiToWei(payout) > 0
    /\ IsDefined(cachedChannel)
    /\ remainingInChannel(cachedChannel) > 0

\* a createClaim that does not cap the claim at what is left in the channel
UncappedIncrement(cachedChannel, payout) == GweiToWei(payout)

\* createClaim, lines 535-538
ClaimIncrement(cachedChannel, payout) ==
    BigMin(remainingInChannel(cachedChannel), GweiToWei(payout))

\* a createClaim that signs the increment alone, not the running total
SignsIncrementOnly(cachedChannel, payout) ==
    IF CanCreateClaim(cachedChannel, payout)
    THEN signClaim(ClaimIncrement(cachedChannel, payout), cachedChannel)
    ELSE cachedChannel

\* createClaim, lines 545-547 and 577: the channel the reducer returns
CreateClaimChannel(cachedChannel, payout) ==
    IF CanCreateClaim(cachedChannel, payout)
    THEN signClaim(spentFromChannel(cachedChannel) + ClaimIncrement(cachedChannel, payout),
                   cachedChannel)
    ELSE cachedChannel

\* createClaim, lines 563-566
ClaimIncrementGwei(cachedChannel, payout) ==
    WeiToGweiDown(ClaimIncrement(cachedChannel, payout))

\* createClaim, lines 572-575
NewPayoutAmount(payout, claimIncrementGwei) == BigMin(0, payout - claimIncrementGwei)

\* createClaim: what it does to the account besides the channel it returns
CreateClaimEffects(cachedChannel) ==
    IF CanCreateClaim(cachedChannel, payoutAmount)
    THEN /\ lastSent' = SerializedClaim(CreateClaimChannel(cachedChannel, payoutAmount))
         /\ payableBalance' =
                payableBalance - ClaimIncrementGwei(cachedChannel, payoutAmount)
         /\ payoutAmount' =
                NewPayoutAmount(payoutAmount, ClaimIncrementGwei(cachedChannel, payoutAmount))
    ELSE UNCHANGED <<lastSent, payableBalance, payoutAmount>>

\* sendMoney(amount?): amount = -1 stands for "no amount given"
AmountToSend(amount) == IF amount >= 0 THEN amount ELSE BigMax(0, payableBalance)

\* a sendMoney that knows the outgoing queue only
EnqueuesOnMainQueue ==
    /\ outgoing' = QueueAdd(outgoing, Task("createClaim"))
    /\ UNCHANGED depositQueue

\* sendMoney, lines 500-502
EnqueueCreateClaim ==
    IF depositQueue.exists
    THEN /\ depositQueue' = QueueAdd(depositQueue, Task("createClaim"))
         /\ UNCHANGED outgoing
    ELSE /\ outgoing' = QueueAdd(outgoing, Task("createClaim"))
         /\ UNCHANGED depositQueue

SendMoney(amount) ==
    /\ PendingOut < MaxQueue
    /\ payoutAmount + AmountToSend(amount) <= WeiToGweiDown(MaxChannelValue)
    /\ payoutAmount + AmountToSend(amount) - payableBalance <= MaxOwed
    /\ payoutAmount' = payoutAmount + AmountToSend(amount)
    /\ EnqueueCreateClaim
    /\ UNCHANGED <<payableBalance, ethereumAddress, outRun, orphanQueues, lastSent,
                   chain, txLog, store, inVars, inflight>>

\* handlePrepareResponse on a FULFILL: credit the peer, then sendMoney()
HandleFulfill(amount) ==
    /\ PendingOut < MaxQueue
    /\ payableBalance + amount <= MaxOwed
    /\ payoutAmount + BigMax(0, payableBalance + amount) <= WeiToGweiDown(MaxChannelValue)
    /\ payoutAmount + BigMax(0, payableBalance + amount) - (payableBalance + amount)
            <= MaxOwed
    /\ payableBalance' = payableBalance + amount
    /\ payoutAmount' = payoutAmount + BigMax(0, payableBalance + amount)
    /\ EnqueueCreateClaim
    /\ UNCHANGED <<ethereumAddress, outRun, orphanQueues, lastSent,
                   chain, txLog, store, inVars, inflight>>

\* handlePrepareResponse on a REJECT
HandleReject(code) ==
    /\ IF code = "T04" /\ hasClaim(outgoing.state)
       THEN lastSent' = SerializedClaim(outgoing.state)
       ELSE UNCHANGED lastSent
    /\ UNCHANGED <<payableBalance, payoutAmount, ethereumAddress, outgoing, outRun,
                   depositQueue, orphanQueues, chain, txLog, store, inVars, inflight>>

\* fundOutgoingChannel(value, authorize)
FundOutgoingChannel(value) ==
    /\ PendingOut < MaxQueue
    /\ outgoing' = QueueAdd(outgoing, [Task("fund") EXCEPT !.value = value])
    /\ UNCHANGED <<payableBalance, payoutAmount, ethereumAddress, outRun, depositQueue,
                   orphanQueues, lastSent, chain, txLog, store, inVars, inflight>>

\* autoFundOutgoingChannel() as called from handleData after a machinomy message
\* (createClaim and the constructor call it too)
AutoFundTask == Task("autoFund")

\* a createClaim reducer runs on the outgoing queue
RunCreateClaim ==
    /\ outRun.pc = "idle"
    /\ outgoing.queue # <<>>
    /\ Head(outgoing.queue).kind = "createClaim"
    /\ outgoing' = [state |-> CreateClaimChannel(outgoing.state, payoutAmount),
                    queue |-> QueueInsert(Tail(outgoing.queue), AutoFundTask)]
    /\ CreateClaimEffects(outgoing.state)
    /\ UNCHANGED <<ethereumAddress, outRun, depositQueue, orphanQueues,
                   chain, txLog, store, inVars, inflight>>

\* a createClaim reducer runs on this.depositQueue
RunSideCreateClaim ==
    /\ depositQueue.queue # <<>>
    /\ depositQueue' = [depositQueue EXCEPT
            !.state = CreateClaimChannel(depositQueue.state, payoutAmount),
            !.queue = Tail(depositQueue.queue)]
    /\ outgoing' = QueueAdd(outgoing, AutoFundTask)
    /\ CreateClaimEffects(depositQueue.state)
    /\ UNCHANGED <<ethereumAddress, outRun, orphanQueues,
                   chain, txLog, store, inVars, inflight>>

\* ... on the side queue the running deposit has cleared and is waiting for
RunDetachedCreateClaim ==
    /\ outRun.side.queue # <<>>
    /\ outRun' = [outRun EXCEPT
            !.side.state = CreateClaimChannel(outRun.side.state, payoutAmount),
            !.side.queue = Tail(outRun.side.queue)]
    /\ outgoing' = QueueAdd(outgoing, AutoFundTask)
    /\ CreateClaimEffects(outRun.side.state)
    /\ UNCHANGED <<ethereumAddress, depositQueue, orphanQueues,
                   chain, txLog, store, inVars, inflight>>

\* ... on a side queue that a later deposit has overwritten
RunOrphanCreateClaim ==
    /\ orphanQueues # <<>>
    /\ orphanQueues' =
            IF Len(Head(orphanQueues).queue) = 1 THEN Tail(orphanQueues)
            ELSE <<[Head(orphanQueues) EXCEPT
                        !.state = CreateClaimChannel(Head(orphanQueues).state, payoutAmount),
                        !.queue = Tail(Head(orphanQueues).queue)]>> \o Tail(orphanQueues)
    /\ outgoing' = QueueAdd(outgoing, AutoFundTask)
    /\ CreateClaimEffects(Head(orphanQueues).state)
    /\ UNCHANGED <<ethereumAddress, outRun, depositQueue,
                   chain, txLog, store, inVars, inflight>>

----------------------------------------------------------------------------
\* Funding: autoFundOutgoingChannel, openChannel, depositToChannel

\* remaining < outgoingChannelAmount / 2, without fractions
IsLessThanHalf(remaining, amount) == remaining < (amount + 1) \div 2

\* an autoFund that takes every channel for one in need of funds
AlwaysTopsUp(cachedChannel) == TRUE

\* autoFundOutgoingChannel, lines 297-301
RequiresTopUp(cachedChannel) ==
    \/ ~IsDefined(cachedChannel)
    \/ IsLessThanHalf(remainingInChannel(cachedChannel), outgoingChannelAmount)

\* autoFundOutgoingChannel, lines 303-307
SufficientIncoming(incomingChannel) ==
    (IF IsDefined(incomingChannel) THEN incomingChannel.value ELSE 0)
        >= minIncomingChannelAmount

\* depositToChannel, lines 394-402: the side queue and its first createClaim
BeginDeposit(channel, value, authorize) ==
    /\ orphanQueues' =
            IF depositQueue.queue # <<>> THEN Append(orphanQueues, depositQueue)
            ELSE orphanQueues
    /\ depositQueue' = QueueAdd(SideQueue(channel), Task("createClaim"))
    /\ outRun' = [IdleRun EXCEPT !.pc = "dep_prepare", !.value = value,
                                 !.channel = channel, !.authorize = authorize]

\* an openChannel that does not ask for the peer's address
OpensUnlinked(value, authorize) ==
    /\ outRun' = [IdleRun EXCEPT !.pc = "open_tx", !.value = value,
                                 !.authorize = authorize]
    /\ UNCHANGED <<depositQueue, orphanQueues>>

\* openChannel, lines 330-331: fetchEthereumAddress returns at once if linked
BeginOpen(value, authorize) ==
    /\ outRun' = [IdleRun EXCEPT
            !.pc = IF ethereumAddress # "" THEN "open_tx" ELSE "open_info",
            !.value = value, !.authorize = authorize]
    /\ UNCHANGED <<depositQueue, orphanQueues>>

\* the fundOutgoingChannel reducer starts
RunFund ==
    /\ outRun.pc = "idle"
    /\ outgoing.queue # <<>>
    /\ Head(outgoing.queue).kind = "fund"
    /\ outgoing' = [outgoing EXCEPT !.queue = Tail(outgoing.queue)]
    /\ IF IsDefined(outgoing.state)
       THEN BeginDeposit(outgoing.state, Head(outgoing.queue).value, "callback")
       ELSE BeginOpen(Head(outgoing.queue).value, "callback")
    /\ UNCHANGED <<payableBalance, payoutAmount, ethereumAddress, lastSent,
                   chain, txLog, store, inVars, inflight>>

\* the autoFundOutgoingChannel reducer runs: no top-up needed
RunAutoFundNoop ==
    /\ outRun.pc = "idle"
    /\ outgoing.queue # <<>>
    /\ Head(outgoing.queue).kind = "autoFund"
    /\ ~(RequiresTopUp(outgoing.state) /\ SufficientIncoming(incoming[Self].state))
    /\ outgoing' = [outgoing EXCEPT !.queue = Tail(outgoing.queue)]
    /\ UNCHANGED <<payableBalance, payoutAmount, ethereumAddress, outRun, depositQueue,
                   orphanQueues, lastSent, chain, txLog, store, inVars, inflight>>

\* the autoFundOutgoingChannel reducer runs: open or top up
RunAutoFund ==
    /\ outRun.pc = "idle"
    /\ outgoing.queue # <<>>
    /\ Head(outgoing.queue).kind = "autoFund"
    /\ RequiresTopUp(outgoing.state) /\ SufficientIncoming(incoming[Self].state)
    /\ outgoing' = [outgoing EXCEPT !.queue = Tail(outgoing.queue)]
    /\ IF IsDefined(outgoing.state)
       THEN BeginDeposit(outgoing.state, outgoingChannelAmount, "default")
       ELSE BeginOpen(outgoingChannelAmount, "default")
    /\ UNCHANGED <<payableBalance, payoutAmount, ethereumAddress, lastSent,
                   chain, txLog, store, inVars, inflight>>

\* handleData queues autoFundOutgoingChannel after a machinomy message
QueueAutoFund ==
    /\ PendingOut < MaxQueue
    /\ outgoing' = QueueAdd(outgoing, AutoFundTask)
    /\ UNCHANGED <<payableBalance, payoutAmount, ethereumAddress, outRun, depositQueue,
                   orphanQueues, lastSent, chain, txLog, store, inVars, inflight>>

----------------------------------------------------------------------------
\* linkEthereumAddress

\* ethers.utils.getAddress accepts these
ValidAddresses == {"0xAA", "0xaa", "0xBB", "0xME"}

\* what the JSON of an info message can carry: "" stands for no string at all
InfoAddresses == {"0xAA", "0xaa", "0xBB", "", "0xbad"}

\* a linkEthereumAddress that takes every valid address it is given
RelinksAddress(currentAddress, address) ==
    IF address \in ValidAddresses THEN address ELSE currentAddress

\* linkEthereumAddress: the account's address after the info message
linkEthereumAddress(currentAddress, address) ==
    IF address = "" THEN currentAddress
    ELSE IF address \notin ValidAddresses THEN currentAddress
    ELSE IF currentAddress # "" THEN currentAddress
    ELSE address

\* handleData, info sub-protocol
HandleInfo(address) ==
    /\ ethereumAddress' = linkEthereumAddress(ethereumAddress, address)
    /\ UNCHANGED <<payableBalance, payoutAmount, outgoing, outRun, depositQueue,
                   orphanQueues, lastSent, chain, txLog, store, inVars, inflight>>

----------------------------------------------------------------------------
\* openChannel

\* the reducer rejects: the queue keeps its state
ReducerFails == outRun' = IdleRun

\* fetchEthereumAddress: the peer's response; "none" = no info or an error
OpenInfoResponse(address) ==
    /\ outRun.pc = "open_info"
    /\ ethereumAddress' = linkEthereumAddress(ethereumAddress, address)
    /\ IF ethereumAddress' = ""
       THEN /\ outRun' = IdleRun
            /\ outgoing' = [outgoing EXCEPT !.state = undefined]
       ELSE /\ outRun' = [outRun EXCEPT !.pc = "open_tx"]
            /\ UNCHANGED outgoing
    /\ UNCHANGED <<payableBalance, payoutAmount, depositQueue, orphanQueues, lastSent,
                   chain, txLog, store, inVars, inflight>>

\* The contract, the gas price or prepareTransaction rejects ("prepare"), or
\* the caller's authorize does ("authorize"; the default authorize resolves)
OpenNotSent(cause) ==
    /\ outRun.pc = "open_tx"
    /\ cause = "authorize" => outRun.authorize = "callback"
    /\ ReducerFails
    /\ UNCHANGED <<payableBalance, payoutAmount, ethereumAddress, outgoing, depositQueue,
                   orphanQueues, lastSent, chain, txLog, store, inVars, inflight>>

\* generateChannelId: an id no channel has yet
FreshIds == {id \in OutChannelIds : ~IsDefined(chain[id])}

NewChannelId == CHOOSE id \in FreshIds : TRUE

OpenedChannel(id, value) ==
    [undefined EXCEPT !.channelId = id, !.contractAddress = contractAddress,
                      !.sender = walletAddress, !.receiver = ethereumAddress,
                      !.value = value, !.disputePeriod = 1]

\* master._queueTransaction(open): ok = the transaction is mined
OpenTx(ok) ==
    /\ outRun.pc = "open_tx"
    /\ FreshIds # {}
    /\ txLog' = txLog \cup {[method |-> "open", channelId |-> NewChannelId]}
    /\ IF ok
       THEN /\ chain' = [chain EXCEPT ![NewChannelId] = OpenedChannel(NewChannelId, outRun.value)]
            /\ outRun' = [outRun EXCEPT !.pc = "open_refresh",
                                        !.channel = OpenedChannel(NewChannelId, outRun.value)]
       ELSE /\ ReducerFails
            /\ UNCHANGED chain
    /\ UNCHANGED <<payableBalance, payoutAmount, ethereumAddress, outgoing, depositQueue,
                   orphanQueues, lastSent, store, inVars, inflight>>

\* refreshChannel(channelId, exists) saw the channel: sign and send the
\* zero-value claim, commit
OpenCommit ==
    /\ outRun.pc = "open_refresh"
    /\ IsDefined(fetchChannel(outRun.channel.channelId))
    /\ outgoing' = [outgoing EXCEPT
            !.state = signClaim(0, fetchChannel(outRun.channel.channelId))]
    /\ lastSent' = SerializedClaim(signClaim(0, fetchChannel(outRun.channel.channelId)))
    /\ outRun' = IdleRun
    /\ UNCHANGED <<payableBalance, payoutAmount, ethereumAddress, depositQueue,
                   orphanQueues, chain, txLog, store, inVars, inflight>>

\* refreshChannel gave up after its attempts
OpenRefreshFails ==
    /\ outRun.pc = "open_refresh"
    /\ ReducerFails
    /\ UNCHANGED <<payableBalance, payoutAmount, ethereumAddress, outgoing, depositQueue,
                   orphanQueues, lastSent, chain, txLog, store, inVars, inflight>>

----------------------------------------------------------------------------
\* depositToChannel

\* lines 404-408
isDepositSuccessful(updatedChannel, channel, value) ==
    IsDefined(updatedChannel) /\ updatedChannel.value = channel.value + value

\* a merge that keeps the claim the deposit started from
KeepsRefreshedClaim(updatedChannel, forkedState) == updatedChannel

\* lines 468-475: the updated channel with the side queue's claim
MergeDeposit(updatedChannel, forkedState) ==
    IF IsDefined(forkedState)
    THEN [updatedChannel EXCEPT !.signature = forkedState.signature,
                                !.spent = forkedState.spent]
    ELSE updatedChannel

\* lines 464-465 and 481-482: this.depositQueue.clear(); delete this.depositQueue.
\* The reducer then waits for the cleared queue to drain.
ClearDepositQueue(failed, updatedChannel) ==
    /\ outRun' = [outRun EXCEPT !.pc = "dep_wait", !.failed = failed,
                                !.updated = updatedChannel, !.side = depositQueue]
    /\ depositQueue' = NoQueue

\* lines 415-416: awaiting the contract or the gas price rejects, before the
\* promise chain with its catch handler exists
DepositSetupFails ==
    /\ outRun.pc = "dep_prepare"
    /\ ReducerFails
    /\ UNCHANGED <<payableBalance, payoutAmount, ethereumAddress, outgoing, depositQueue,
                   orphanQueues, lastSent, chain, txLog, store, inVars, inflight>>

\* prepareTransaction rejects ("prepare"), or the caller's authorize does
\* ("authorize"; the default authorize resolves): the catch handler runs
DepositNotSent(cause) ==
    /\ outRun.pc = "dep_prepare"
    /\ cause = "authorize" => outRun.authorize = "callback"
    /\ ClearDepositQueue(cause, undefined)
    /\ UNCHANGED <<payableBalance, payoutAmount, ethereumAddress, outgoing,
                   orphanQueues, lastSent, chain, txLog, store, inVars, inflight>>

\* master._queueTransaction(deposit): ok = the transaction is mined
DepositTx(ok) ==
    /\ outRun.pc = "dep_prepare"
    /\ txLog' = txLog \cup {[method |-> "deposit", channelId |-> outRun.channel.channelId]}
    /\ IF ok
       THEN /\ IsDefined(chain[outRun.channel.channelId])
            /\ outRun.value <= MaxChannelValue - chain[outRun.channel.channelId].value
            /\ chain' = [chain EXCEPT
                    ![outRun.channel.channelId].value = @ + outRun.value]
            /\ outRun' = [outRun EXCEPT !.pc = "dep_refresh"]
            /\ UNCHANGED depositQueue
       ELSE /\ ClearDepositQueue("tx", undefined)
            /\ UNCHANGED chain
    /\ UNCHANGED <<payableBalance, payoutAmount, ethereumAddress, outgoing,
                   orphanQueues, lastSent, store, inVars, inflight>>

\* refreshChannel(channel, isDepositSuccessful) saw the new value; the peer is
\* told of the deposit and the side queue is cleared
DepositRefreshed ==
    /\ outRun.pc = "dep_refresh"
    /\ isDepositSuccessful(updateChannel(outRun.channel), outRun.channel, outRun.value)
    /\ ClearDepositQueue("", updateChannel(outRun.channel))
    /\ UNCHANGED <<payableBalance, payoutAmount, ethereumAddress, outgoing,
                   orphanQueues, lastSent, chain, txLog, store, inVars, inflight>>

\* refreshChannel gave up after its attempts: the catch handler runs
DepositRefreshFails ==
    /\ outRun.pc = "dep_refresh"
    /\ ClearDepositQueue("refresh", undefined)
    /\ UNCHANGED <<payableBalance, payoutAmount, ethereumAddress, outgoing,
                   orphanQueues, lastSent, chain, txLog, store, inVars, inflight>>

\* a deposit that returns what refreshChannel gave it and nothing else
DropsSideState(run) == run.updated

\* what the deposit reducer returns once the cleared side queue has drained
DepositResult(run) ==
    IF run.failed # "" THEN run.side.state ELSE MergeDeposit(run.updated, run.side.state)

DepositCommit ==
    /\ outRun.pc = "dep_wait"
    /\ outRun.side.queue = <<>>
    /\ outgoing' = [outgoing EXCEPT !.state = DepositResult(outRun)]
    /\ outRun' = IdleRun
    /\ UNCHANGED <<payableBalance, payoutAmount, ethereumAddress, depositQueue,
                   orphanQueues, lastSent, chain, txLog, store, inVars, inflight>>

----------------------------------------------------------------------------
\* Incoming validation engine: validateClaim

MaxAttempts == 20
minIncomingDisputePeriod == 1

IdleIn ==
    [pc |-> "idle", claim |-> NoClaim, updated |-> undefined,
     requireDisputed |-> FALSE, authorize |-> "", txFee |-> 0, attempts |-> 0]

\* this.watcher is set (ref) and its interval timer still fires (active)
WatcherOn == [ref |-> TRUE, active |-> TRUE]

\* lines 868-873
shouldFetchChannel(cachedChannel, claim) ==
    ~IsDefined(cachedChannel) \/ claim.value > cachedChannel.value

FetchedChannel(cachedChannel, claim) ==
    IF shouldFetchChannel(cachedChannel, claim)
    THEN fetchChannel(claim.channelId)
    ELSE cachedChannel

\* utils/channel isValidClaimSignature: the signer recovered from the
\* signature over the claim's digest is the channel's sender
isValidClaimSignature(claim, channel) ==
    claim.signature =
        SignDigest(channel.sender, claim.contractAddress, claim.channelId, claim.value)

\* lines 969-984
SufficientValueStage(updatedChannel, claim, attempts) ==
    IF updatedChannel.value >= claim.value THEN "pass"
    ELSE IF attempts > MaxAttempts THEN "reject:value"
    ELSE "retry"

\* lines 944-984: the checks every claim goes through
UniversalStage(updatedChannel, claim, attempts) ==
    IF claim.value < 0 THEN "reject:negative"
    ELSE IF ToLowerCase(claim.contractAddress) # ToLowerCase(contractAddress)
    THEN "reject:contract"
    ELSE IF ~isValidClaimSignature(claim, updatedChannel) THEN "reject:signature"
    ELSE SufficientValueStage(updatedChannel, claim, attempts)

\* lines 876-921: a new channel
NewChannelStage(updatedChannel, claim, attempts) ==
    IF ~IsDefined(updatedChannel)
    THEN IF attempts > MaxAttempts THEN "reject:absent" ELSE "retry"
    ELSE IF ToLowerCase(updatedChannel.receiver) # ToLowerCase(walletAddress)
    THEN "reject:receiver"
    ELSE IF updatedChannel.disputePeriod < minIncomingDisputePeriod
    THEN "reject:disputePeriod"
    ELSE UniversalStage(updatedChannel, claim, attempts)

\* a validateClaim that does not compare the claim's channelId with the
\* linked channel's
SkipsChannelIdCheck(cachedChannel, updatedChannel, claim, attempts) ==
    IF ~IsDefined(updatedChannel) THEN "reject:closed"
    ELSE UniversalStage(updatedChannel, claim, attempts)

\* lines 923-938: a linked channel
LinkedChannelStage(cachedChannel, updatedChannel, claim, attempts) ==
    IF ~IsDefined(updatedChannel) THEN "reject:closed"
    ELSE IF claim.channelId # cachedChannel.channelId THEN "reject:channelId"
    ELSE UniversalStage(updatedChannel, claim, attempts)

\* lines 868-984: "pass", "retry" or the reason of the rejection
ValidateStage(cachedChannel, updatedChannel, claim, attempts) ==
    IF ~IsDefined(cachedChannel)
    THEN NewChannelStage(updatedChannel, claim, attempts)
    ELSE LinkedChannelStage(cachedChannel, updatedChannel, claim, attempts)

\* lines 1014-1017
IncomingClaimIncrement(cachedChannel, updatedChannel, claim) ==
    BigMin(claim.value, updatedChannel.value)
        - (IF IsDefined(cachedChannel) THEN cachedChannel.spent ELSE 0)

\* a validateClaim that takes a claim equal to the last one for a better one
AcceptsEqualClaim(cachedChannel, updatedChannel, claim) ==
    IncomingClaimIncrement(cachedChannel, updatedChannel, claim) >= 0

\* line 1020
isBestClaim(cachedChannel, updatedChannel, claim) ==
    IncomingClaimIncrement(cachedChannel, updatedChannel, claim) > 0

\* lines 1032-1035
CreditAmount(cachedChannel, updatedChannel, claim) ==
    WeiToGweiDown(IncomingClaimIncrement(cachedChannel, updatedChannel, claim))

\* lines 1055-1061
AcceptedChannel(updatedChannel, claim) ==
    [updatedChannel EXCEPT
        !.channelId = claim.channelId,
        !.contractAddress = claim.contractAddress,
        !.signature = claim.signature,
        !.spent = claim.value]

\* lines 1050-1053
StartWatcherIfStopped(w) == IF ~w.ref THEN WatcherOn ELSE w

\* line 763: this.account.incoming.add(this.validateClaim(claim))
QueueValidateClaim(a, claim) ==
    /\ incoming' = [incoming EXCEPT
            ![a] = QueueAdd(@, [Task("validate") EXCEPT !.claim = claim])]
    /\ UNCHANGED <<outVars, chain, txLog, store, inRun, receivableBalance, watcher,
                   polls, inflight>>

\* handleData, machinomy sub-protocol: queue validateClaim(claim)
HandleMachinomy(a, claim) ==
    /\ Len(incoming[a].queue) < MaxInQueue
    /\ QueueValidateClaim(a, claim)

\* lines 868-1042 from the fetch on, for the reducer of account a popped or
\* resumed with `queue` left pending: retry (the recursive call of lines 888
\* and 983 gets attempts + 1), reject, wait for the store (new channel), or
\* debit and call the money handler (linked channel)
ValidateFrom(a, claim, attempts, queue) ==
    LET cachedChannel == incoming[a].state
        updatedChannel == FetchedChannel(cachedChannel, claim)
        stage == ValidateStage(cachedChannel, updatedChannel, claim, attempts)
        frame == [IdleIn EXCEPT !.claim = claim, !.updated = updatedChannel]
    IN  /\ incoming' = [incoming EXCEPT ![a].queue = queue]
        /\ IF stage = "retry"
           THEN /\ inRun' = [inRun EXCEPT ![a] =
                        [frame EXCEPT !.pc = "v_retry", !.updated = undefined,
                                      !.attempts = attempts + 1]]
                /\ UNCHANGED receivableBalance
           ELSE IF stage # "pass"
           THEN /\ inRun' = [inRun EXCEPT ![a] = IdleIn]
                /\ UNCHANGED receivableBalance
           ELSE IF ~IsDefined(cachedChannel)
           THEN /\ inRun' = [inRun EXCEPT ![a] = [frame EXCEPT !.pc = "v_load"]]
                /\ UNCHANGED receivableBalance
           ELSE IF isBestClaim(cachedChannel, updatedChannel, claim)
           THEN /\ CreditAmount(cachedChannel, updatedChannel, claim)
                        <= receivableBalance[a] + MaxPrepaid
                /\ inRun' = [inRun EXCEPT ![a] = [frame EXCEPT !.pc = "v_money"]]
                /\ receivableBalance' = [receivableBalance EXCEPT
                        ![a] = @ - CreditAmount(cachedChannel, updatedChannel, claim)]
           ELSE /\ inRun' = [inRun EXCEPT ![a] = IdleIn]
                /\ UNCHANGED receivableBalance

\* a validateClaim reducer starts on account a's incoming queue
RunValidate(a) ==
    /\ inRun[a].pc = "idle"
    /\ incoming[a].queue # <<>>
    /\ Head(incoming[a].queue).kind = "validate"
    /\ ValidateFrom(a, Head(incoming[a].queue).claim, 0, Tail(incoming[a].queue))
    /\ UNCHANGED <<outVars, chain, txLog, store, watcher, polls, inflight>>

\* lines 887-888 and 982-983: after delay(250), validateClaim again; the
\* delays are not timed against the chain, so the number of this attempt is
\* an input
ValidateRetry(a, attempts) ==
    /\ inRun[a].pc = "v_retry"
    /\ ValidateFrom(a, inRun[a].claim, attempts, incoming[a].queue)
    /\ UNCHANGED <<outVars, chain, txLog, store, watcher, polls, inflight>>

\* a retry that starts over from attempts = 0
ForgetsAttempts(a) == ValidateRetry(a, 0)

\* lines 887-888 and 982-983 with the attempts counted: the recursive call
\* runs with the attempts + 1 its caller passed
ValidateAgain(a) == ValidateRetry(a, inRun[a].attempts)

\* a validateClaim that never looks the channel up in the store
NeverLinked(linkedAccount, accountName) == FALSE

\* lines 993-1003: is the channel linked already
IsLinked(linkedAccount, accountName) == linkedAccount # ""

\* lines 994-1061: master._store.load(channelKey) has resolved
ValidateLoaded(a) ==
    LET claim == inRun[a].claim
        updatedChannel == inRun[a].updated
    IN  /\ inRun[a].pc = "v_load"
        /\ IF IsLinked(store[claim.channelId], a)
           THEN /\ inRun' = [inRun EXCEPT ![a] = IdleIn]
                /\ UNCHANGED <<store, receivableBalance, incoming, watcher>>
           ELSE /\ store' = [store EXCEPT ![claim.channelId] = a]
                /\ IF isBestClaim(undefined, updatedChannel, claim)
                   THEN /\ CreditAmount(undefined, updatedChannel, claim)
                                <= receivableBalance[a] + MaxPrepaid
                        /\ inRun' = [inRun EXCEPT ![a].pc = "v_money"]
                        /\ receivableBalance' = [receivableBalance EXCEPT
                                ![a] = @ - CreditAmount(undefined, updatedChannel, claim)]
                        /\ UNCHANGED <<incoming, watcher>>
                   ELSE /\ inRun' = [inRun EXCEPT ![a] = IdleIn]
                        /\ incoming' = [incoming EXCEPT
                                ![a].state = AcceptedChannel(updatedChannel, claim)]
                        /\ watcher' = [watcher EXCEPT ![a] = StartWatcherIfStopped(@)]
                        /\ UNCHANGED receivableBalance
        /\ UNCHANGED <<outVars, chain, txLog, polls, inflight>>

\* lines 1041-1061: the money handler resolves (ok) or throws
ValidateMoney(a, ok) ==
    /\ inRun[a].pc = "v_money"
    /\ inRun' = [inRun EXCEPT ![a] = IdleIn]
    /\ IF ok
       THEN /\ incoming' = [incoming EXCEPT
                    ![a].state = AcceptedChannel(inRun[a].updated, inRun[a].claim)]
            /\ watcher' = [watcher EXCEPT ![a] = StartWatcherIfStopped(@)]
       ELSE UNCHANGED <<incoming, watcher>>
    /\ UNCHANGED <<outVars, chain, txLog, store, receivableBalance, polls, inflight>>

----------------------------------------------------------------------------
\* claimIfProfitable

IncomingTaskPriorityClaimChannel == 1

\* claimIfProfitable(requireDisputed, authorize): authorize is "none" (not
\* given), "resolve" (handleData's () => Promise.resolve()) or "callback"
QueueClaimIfProfitable(a, requireDisputed, authorize) ==
    /\ incoming' = [incoming EXCEPT ![a] = QueueAdd(@,
            [Task("claim") EXCEPT !.priority = IncomingTaskPriorityClaimChannel,
                                  !.requireDisputed = requireDisputed,
                                  !.arg = authorize])]
    /\ UNCHANGED <<outVars, chain, txLog, store, inRun, receivableBalance, watcher,
                   polls, inflight>>

ClaimIfProfitable(a, requireDisputed, authorize) ==
    /\ Len(incoming[a].queue) < MaxInQueue
    /\ QueueClaimIfProfitable(a, requireDisputed, authorize)

\* handleData, requestClose sub-protocol (lines 731-744)
HandleRequestClose(a) == ClaimIfProfitable(a, FALSE, "resolve")

\* lines 1133-1141: the reducer starts
RunClaim(a) ==
    /\ inRun[a].pc = "idle"
    /\ incoming[a].queue # <<>>
    /\ Head(incoming[a].queue).kind = "claim"
    /\ incoming' = [incoming EXCEPT ![a].queue = Tail(@)]
    /\ inRun' = [inRun EXCEPT ![a] =
            IF IsDefined(incoming[a].state)
            THEN [IdleIn EXCEPT !.pc = "c_update",
                                !.requireDisputed = Head(incoming[a].queue).requireDisputed,
                                !.authorize = Head(incoming[a].queue).arg]
            ELSE IdleIn]
    /\ UNCHANGED <<outVars, chain, txLog, store, receivableBalance, watcher,
                   polls, inflight>>

\* a claimIfProfitable that trusts whoever queued it about the dispute
ClaimsUndisputed(requireDisputed, updatedChannel) == FALSE

\* lines 1153: does the reducer stop because the channel is not disputed
StopsUndisputed(requireDisputed, updatedChannel) ==
    requireDisputed /\ ~isDisputed(updatedChannel)

\* lines 1138-1160: updateChannel has resolved
ClaimUpdated(a) ==
    LET updatedChannel == updateChannel(incoming[a].state)
    IN  /\ inRun[a].pc = "c_update"
        /\ IF ~IsDefined(updatedChannel)
           THEN /\ inRun' = [inRun EXCEPT ![a] = IdleIn]
                /\ incoming' = [incoming EXCEPT ![a].state = undefined]
           ELSE IF StopsUndisputed(inRun[a].requireDisputed, updatedChannel)
           THEN /\ inRun' = [inRun EXCEPT ![a] = IdleIn]
                /\ incoming' = [incoming EXCEPT ![a].state = updatedChannel]
           ELSE /\ inRun' = [inRun EXCEPT ![a].pc = "c_prepare",
                                          ![a].updated = updatedChannel]
                /\ UNCHANGED incoming
        /\ UNCHANGED <<outVars, chain, txLog, store, receivableBalance, watcher,
                       polls, inflight>>

\* a default policy that still claims when the fee equals the claim
SubmitsAtEqualFee(authorize, authorized, txFee, spent) ==
    IF authorize # "none"
    THEN (authorize = "resolve" \/ authorized)
    ELSE ~(txFee > spent)

\* lines 1176-1194: is the claim transaction sent; authorized is what the
\* callback answers when the caller gave one
SubmitsClaim(authorize, authorized, txFee, spent) ==
    IF authorize # "none"
    THEN (authorize = "resolve" \/ authorized)
    ELSE ~(txFee >= spent)

\* lines 1168-1194: prepareTransaction has resolved with the fee
ClaimPrepared(a, txFee, authorized) ==
    /\ inRun[a].pc = "c_prepare"
    /\ IF SubmitsClaim(inRun[a].authorize, authorized, txFee, inRun[a].updated.spent)
       THEN /\ inRun' = [inRun EXCEPT ![a].pc = "c_tx", ![a].txFee = txFee]
            /\ UNCHANGED incoming
       ELSE /\ inRun' = [inRun EXCEPT ![a] = IdleIn]
            /\ incoming' = [incoming EXCEPT ![a].state = inRun[a].updated]
    /\ UNCHANGED <<outVars, chain, txLog, store, receivableBalance, watcher,
                   polls, inflight>>

\* prepareTransaction or the gas price rejects: the reducer fails
ClaimPrepareFails(a) ==
    /\ inRun[a].pc = "c_prepare"
    /\ inRun' = [inRun EXCEPT ![a] = IdleIn]
    /\ UNCHANGED <<outVars, chain, txLog, store, incoming, receivableBalance, watcher,
                   polls, inflight>>

\* a claim transaction after which the reducer commits undefined, mined or not
FailedClaimDropsState(a, ok) ==
    /\ inRun[a].pc = "c_tx"
    /\ txLog' = txLog \cup {[method |-> "claim", channelId |-> inRun[a].updated.channelId]}
    /\ inRun' = [inRun EXCEPT ![a] = IdleIn]
    /\ incoming' = [incoming EXCEPT ![a].state = undefined]
    /\ UNCHANGED <<outVars, chain, store, receivableBalance, watcher, polls, inflight>>

\* lines 1196-1199: master._queueTransaction(claim); mined (ok) closes the channel
ClaimTx(a, ok) ==
    /\ inRun[a].pc = "c_tx"
    /\ txLog' = txLog \cup {[method |-> "claim", channelId |-> inRun[a].updated.channelId]}
    /\ IF ok
       THEN /\ IsDefined(chain[inRun[a].updated.channelId])
            /\ chain' = [chain EXCEPT ![inRun[a].updated.channelId] = undefined]
            /\ inRun' = [inRun EXCEPT ![a].pc = "c_refresh"]
       ELSE /\ inRun' = [inRun EXCEPT ![a] = IdleIn]
            /\ UNCHANGED chain
    /\ UNCHANGED <<outVars, store, incoming, receivableBalance, watcher, polls, inflight>>

\* lines 1203-1214: refreshChannel saw the channel gone
ClaimRefreshed(a) ==
    /\ inRun[a].pc = "c_refresh"
    /\ ~IsDefined(updateChannel(inRun[a].updated))
    /\ inRun' = [inRun EXCEPT ![a] = IdleIn]
    /\ incoming' = [incoming EXCEPT ![a].state = undefined]
    /\ UNCHANGED <<outVars, chain, txLog, store, receivableBalance, watcher,
                   polls, inflight>>

\* refreshChannel gave up after its attempts: the reducer fails
ClaimRefreshFails(a) ==
    /\ inRun[a].pc = "c_refresh"
    /\ inRun' = [inRun EXCEPT ![a] = IdleIn]
    /\ UNCHANGED <<outVars, chain, txLog, store, incoming, receivableBalance, watcher,
                   polls, inflight>>

----------------------------------------------------------------------------
\* Channel watcher

\* what a poller outside the queue keeps of the cached channel it started
\* from: the fields its code reads (identity, value), not the claim
Snapshot(cachedChannel) ==
    [cachedChannel EXCEPT !.spent = 0, !.signature = NoSignature, !.disputed = FALSE]

Poll(a, kind, channel) ==
    [account |-> a, kind |-> kind, channel |-> Snapshot(channel)]

\* startChannelWatcher, lines 1099-1111: the interval fires
WatcherTick(a) ==
    /\ watcher[a].active
    /\ IF ~IsDefined(incoming[a].state)
       THEN /\ watcher' = [watcher EXCEPT ![a] = [ref |-> FALSE, active |-> FALSE]]
            /\ UNCHANGED polls
       ELSE /\ polls' = polls \cup {Poll(a, "watch", incoming[a].state)}
            /\ UNCHANGED watcher
    /\ UNCHANGED <<outVars, chain, txLog, store, incoming, inRun, receivableBalance,
                   inflight>>

\* a watcher that acts on closed channels only
ClaimsOnlyClosed(updatedChannel) == ~IsDefined(updatedChannel)

\* line 1115
WatcherClaims(updatedChannel) == ~IsDefined(updatedChannel) \/ isDisputed(updatedChannel)

\* lines 1108-1123: the tick's updateChannel has resolved
WatcherPolled(p) ==
    /\ p \in polls
    /\ p.kind = "watch"
    /\ polls' = polls \ {p}
    /\ IF WatcherClaims(updateChannel(p.channel))
       THEN /\ Len(incoming[p.account].queue) < MaxInQueue
            /\ incoming' = [incoming EXCEPT ![p.account] = QueueAdd(@,
                    [Task("claim") EXCEPT !.priority = IncomingTaskPriorityClaimChannel,
                                          !.requireDisputed = TRUE, !.arg = "none"])]
       ELSE UNCHANGED incoming
    /\ UNCHANGED <<outVars, chain, txLog, store, inRun, receivableBalance, watcher,
                   inflight>>

\* disconnect, lines 1269-1274: the timer is cleared, this.watcher is kept
Disconnect(a) ==
    /\ watcher[a].ref
    /\ watcher' = [watcher EXCEPT ![a].active = FALSE]
    /\ UNCHANGED <<outVars, chain, txLog, store, incoming, inRun, receivableBalance,
                   polls, inflight>>

----------------------------------------------------------------------------
\* handleData, channelDeposit sub-protocol

\* lines 663-680: start checkForDeposit on the cached channel
HandleChannelDeposit(a) ==
    /\ IsDefined(incoming[a].state)
    /\ polls' = polls \cup {Poll(a, "deposit", incoming[a].state)}
    /\ UNCHANGED <<outVars, chain, txLog, store, incoming, inRun, receivableBalance,
                   watcher, inflight>>

\* lines 686-688
wasDeposit(updatedChannel, cachedChannel) == updatedChannel.value > cachedChannel.value

\* lines 677-720: one updateChannel of checkForDeposit has resolved; the poll
\* goes on while the value has not grown
DepositPolled(p) ==
    /\ p \in polls
    /\ p.kind = "deposit"
    /\ IF ~IsDefined(updateChannel(p.channel))
       THEN polls' = polls \ {p} /\ UNCHANGED incoming
       ELSE IF ~wasDeposit(updateChannel(p.channel), p.channel)
       THEN UNCHANGED <<polls, incoming>>
       ELSE /\ Len(incoming[p.account].queue) < MaxInQueue
            /\ polls' = polls \ {p}
            /\ incoming' = [incoming EXCEPT ![p.account] = QueueAdd(@,
                    [Task("reconcile") EXCEPT !.channel = p.channel,
                                              !.value = updateChannel(p.channel).value])]
    /\ UNCHANGED <<outVars, chain, txLog, store, inRun, receivableBalance, watcher,
                   inflight>>

\* lines 671-675: checkForDeposit is out of attempts
DepositPollGivesUp(p) ==
    /\ p \in polls
    /\ p.kind = "deposit"
    /\ polls' = polls \ {p}
    /\ UNCHANGED <<outVars, chain, txLog, store, incoming, inRun, receivableBalance,
                   watcher, inflight>>

\* lines 697-704
isSameChannel(newCachedChannel, cachedChannel) ==
    /\ IsDefined(newCachedChannel)
    /\ newCachedChannel.channelId = cachedChannel.channelId
    /\ newCachedChannel.disputePeriod = cachedChannel.disputePeriod
    /\ newCachedChannel.sender = cachedChannel.sender
    /\ newCachedChannel.receiver = cachedChannel.receiver

\* a reconciliation that builds on the channel checkForDeposit started from
ReconcilesFromSnapshot(newCachedChannel, cachedChannel, updatedValue) ==
    IF isSameChannel(newCachedChannel, cachedChannel)
    THEN [cachedChannel EXCEPT !.value = BigMax(updatedValue, newCachedChannel.value)]
    ELSE newCachedChannel

\* lines 695-720: what the reducer returns
Reconciled(newCachedChannel, cachedChannel, updatedValue) ==
    IF isSameChannel(newCachedChannel, cachedChannel)
    THEN [newCachedChannel EXCEPT !.value = BigMax(updatedValue, newCachedChannel.value)]
    ELSE newCachedChannel

\* the reconciling reducer runs on the incoming queue
RunReconcile(a) ==
    /\ inRun[a].pc = "idle"
    /\ incoming[a].queue # <<>>
    /\ Head(incoming[a].queue).kind = "reconcile"
    /\ incoming' = [incoming EXCEPT
            ![a].queue = Tail(@),
            ![a].state = Reconciled(@, Head(incoming[a].queue).channel,
                                    Head(incoming[a].queue).value)]
    /\ UNCHANGED <<outVars, chain, txLog, store, inRun, receivableBalance, watcher,
                   polls, inflight>>

----------------------------------------------------------------------------
\* The peer's side of the chain

PeerChannel(id, receiver, disputePeriod, value) ==
    [undefined EXCEPT !.channelId = id, !.contractAddress = contractAddress,
                      !.sender = "0xAA", !.receiver = receiver,
                      !.value = value, !.disputePeriod = disputePeriod]

PeerOpens(id, receiver, disputePeriod, value) ==
    /\ ~IsDefined(chain[id])
    /\ chain' = [chain EXCEPT ![id] = PeerChannel(id, receiver, disputePeriod, value)]
    /\ UNCHANGED <<outVars, txLog, store, inVars, inflight>>

PeerDeposits(id, value) ==
    /\ IsDefined(chain[id])
    /\ value <= MaxChannelValue - chain[id].value
    /\ chain' = [chain EXCEPT ![id].value = @ + value]
    /\ UNCHANGED <<outVars, txLog, store, inVars, inflight>>

PeerStartsDispute(id) ==
    /\ IsDefined(chain[id])
    /\ ~chain[id].disputed
    /\ chain' = [chain EXCEPT ![id].disputed = TRUE]
    /\ UNCHANGED <<outVars, txLog, store, inVars, inflight>>

\* the dispute period is over and the sender takes the channel back
PeerSettles(id) ==
    /\ IsDefined(chain[id])
    /\ chain[id].disputed
    /\ chain' = [chain EXCEPT ![id] = undefined]
    /\ UNCHANGED <<outVars, txLog, store, inVars, inflight>>

----------------------------------------------------------------------------
\* handleData, ilp sub-protocol

NoCycle ==
    [account |-> "", amount |-> 0, before |-> 0, after |-> 0, forwarded |-> FALSE,
     reply |-> "", cause |-> "", alone |-> TRUE]
NoInflight == [packets |-> {}, last |-> NoCycle]

\* a limit that turns away a packet of exactly maxPacketAmount
IsTooLargeOrEqual(amount) == amount >= maxPacketAmount

\* line 793
IsTooLarge(amount) == amount > maxPacketAmount

\* lines 800-801
ExceedsMaxBalance(newBalance) == newBalance > maxBalance

\* a check of the balance as it is, not as the packet would make it
ChecksOldBalance(balance, amount) ==
    IF IsTooLarge(amount) THEN "AmountTooLargeError"
    ELSE IF ExceedsMaxBalance(balance) THEN "InsufficientLiquidityError"
    ELSE ""

\* lines 790-812: the error thrown before the packet is forwarded, "" if none
LimitError(balance, amount) ==
    IF IsTooLarge(amount) THEN "AmountTooLargeError"
    ELSE IF ExceedsMaxBalance(balance + amount) THEN "InsufficientLiquidityError"
    ELSE ""

FreeSlot == CHOOSE i \in 1..MaxInflight : \A p \in inflight.packets : p.id # i

\* lines 789-821 and 844-852: a PREPARE arrives; it is answered with a REJECT
\* built from the limit error, or the balance is debited and the data
\* handler is called
PrepareArrives(a, amount) ==
    LET error == LimitError(receivableBalance[a], amount)
        others == {p \in inflight.packets : p.account = a}
        cycle == [NoCycle EXCEPT !.account = a, !.amount = amount,
                                 !.before = receivableBalance[a]]
    IN  /\ IF error # ""
           THEN /\ inflight' = [inflight EXCEPT !.last =
                        [cycle EXCEPT !.after = receivableBalance[a],
                                      !.reply = "REJECT", !.cause = error]]
                /\ UNCHANGED receivableBalance
           ELSE /\ Cardinality(inflight.packets) < MaxInflight
                /\ receivableBalance' = [receivableBalance EXCEPT ![a] = @ + amount]
                /\ inflight' =
                     [packets |->
                        {[p EXCEPT !.alone = p.account # a /\ p.alone] :
                            p \in inflight.packets}
                        \cup {[id |-> FreeSlot, account |-> a, amount |-> amount,
                               before |-> receivableBalance[a],
                               alone |-> others = {}]},
                      last |-> [cycle EXCEPT !.after = receivableBalance[a] + amount,
                                             !.forwarded = TRUE,
                                             !.alone = others = {}]]
        /\ UNCHANGED <<outVars, chain, txLog, store, incoming, inRun, watcher, polls>>

\* lines 824-835 and 844: the balance after the data handler's outcome:
\* "fulfill", "reject", or "throw" when the handler throws or its response
\* cannot be deserialized
BalanceAfterReply(balance, amount, outcome) ==
    IF outcome = "reject" THEN balance - amount ELSE balance

\* what goes back to the peer
ReplyType(outcome) == IF outcome = "fulfill" THEN "FULFILL" ELSE "REJECT"

\* lines 821-852: the data handler is done with packet p
HandlerReplies(p, outcome) ==
    /\ p \in inflight.packets
    /\ receivableBalance' = [receivableBalance EXCEPT
            ![p.account] = BalanceAfterReply(@, p.amount, outcome)]
    /\ inflight' =
         [packets |-> inflight.packets \ {p},
          last |-> [account |-> p.account, amount |-> p.amount, before |-> p.before,
                    after |-> BalanceAfterReply(receivableBalance[p.account],
                                                p.amount, outcome),
                    forwarded |-> TRUE, reply |-> ReplyType(outcome),
                    cause |-> IF outcome = "throw" THEN "exception" ELSE "handler",
                    alone |-> p.alone /\ receivableBalance[p.account]
                                            = p.before + p.amount]]
    /\ UNCHANGED <<outVars, chain, txLog, store, incoming, inRun, watcher, polls>>

----------------------------------------------------------------------------
\* The outgoing engine on its own

FundValues == {HalfGwei}

\* an incoming channel restored from the store, so that autoFund's gate opens
StoredIncoming ==
    [undefined EXCEPT !.channelId = "c1", !.contractAddress = contractAddress,
                      !.sender = "0xAA", !.receiver = walletAddress,
                      !.value = WeiPerGwei, !.disputePeriod = 1,
                      !.spent = HalfGwei,
                      !.signature = SignDigest("0xAA", contractAddress, "c1", HalfGwei)]

InitFrom(storedIncoming, openIds) ==
    /\ payableBalance = 0
    /\ payoutAmount = 0
    /\ ethereumAddress = ""
    /\ outgoing = [state |-> undefined, queue |-> <<AutoFundTask>>]
    /\ outRun = IdleRun
    /\ depositQueue = NoQueue
    /\ orphanQueues = <<>>
    /\ lastSent = NoClaim
    /\ txLog = {}
    /\ \E stored \in storedIncoming :
        /\ incoming = [a \in Accounts |->
                [state |-> IF a = Self THEN stored ELSE undefined, queue |-> <<>>]]
        /\ chain = [id \in ChannelIds |->
                IF id = stored.channelId
                THEN [stored EXCEPT !.spent = 0, !.signature = NoSignature]
                ELSE IF id \in openIds
                THEN PeerChannel(id, walletAddress, 1, WeiPerGwei)
                ELSE undefined]
        /\ store = [id \in ChannelIds |-> IF id = stored.channelId THEN Self ELSE ""]
    /\ watcher = [a \in Accounts |-> WatcherOn]
    /\ inRun = [a \in Accounts |-> IdleIn]
    /\ receivableBalance = [a \in Accounts |-> 0]
    /\ polls = {}
    /\ inflight = NoInflight

InitOut == InitFrom({StoredIncoming}, {})

NextOut ==
    \/ \E amount \in {-1, 1} : SendMoney(amount)
    \/ \E amount \in {1} : HandleFulfill(amount)
    \/ \E value \in FundValues : FundOutgoingChannel(value)
    \/ QueueAutoFund
    \/ RunCreateClaim
    \/ RunSideCreateClaim
    \/ RunDetachedCreateClaim
    \/ RunOrphanCreateClaim
    \/ RunFund
    \/ RunAutoFundNoop
    \/ RunAutoFund
    \/ \E address \in {"0xAA", ""} : OpenInfoResponse(address)
    \/ \E cause \in {"prepare", "authorize"} : OpenNotSent(cause)
    \/ \E ok \in BOOLEAN : OpenTx(ok)
    \/ OpenCommit
    \/ OpenRefreshFails
    \/ DepositSetupFails
    \/ \E cause \in {"prepare", "authorize"} : DepositNotSent(cause)
    \/ \E ok \in BOOLEAN : DepositTx(ok)
    \/ DepositRefreshed
    \/ DepositRefreshFails
    \/ DepositCommit

SpecOut == InitOut /\ [][NextOut]_vars

----------------------------------------------------------------------------
\* The incoming engine of one account

PeerClaim(signer, id, value) ==
    [channelId |-> id, contractAddress |-> contractAddress, value |-> value,
     signature |-> SignDigest(signer, contractAddress, id, value)]

\* the claims the peer sends: good ones, a stale one, one beyond the channel's
\* value until the peer deposits, and one signed with another key
InClaims ==
    {PeerClaim("0xAA", "c1", v) : v \in {0, HalfGwei, WeiPerGwei, 3 * HalfGwei}}
        \cup {PeerClaim("0xBB", "c1", WeiPerGwei)}

Fees == {HalfGwei, WeiPerGwei}

InitIn == InitFrom({undefined, StoredIncoming}, {"c1"})

NextIn ==
    \/ \E claim \in InClaims : HandleMachinomy(Self, claim)
    \/ RunValidate(Self)
    \/ \E attempts \in {1, MaxAttempts + 1} : ValidateRetry(Self, attempts)
    \/ ValidateLoaded(Self)
    \/ \E ok \in BOOLEAN : ValidateMoney(Self, ok)
    \/ HandleRequestClose(Self)
    \/ RunClaim(Self)
    \/ ClaimUpdated(Self)
    \/ \E txFee \in Fees, authorized \in BOOLEAN : ClaimPrepared(Self, txFee, authorized)
    \/ ClaimPrepareFails(Self)
    \/ \E ok \in BOOLEAN : ClaimTx(Self, ok)
    \/ ClaimRefreshed(Self)
    \/ ClaimRefreshFails(Self)
    \/ HandleChannelDeposit(Self)
    \/ \E p \in polls : DepositPolled(p)
    \/ \E p \in polls : DepositPollGivesUp(p)
    \/ RunReconcile(Self)
    \/ PeerDeposits("c1", HalfGwei)
    \/ PeerStartsDispute("c1")
    \/ PeerSettles("c1")

SpecIn == InitIn /\ [][NextIn]_vars

----------------------------------------------------------------------------
\* The channel watcher and the closing of a disputed channel: the peer has
\* started a dispute and does not settle before the claim, the fee stays
\* below the claim, and a reducer or a transaction that fails is tried
\* again until it succeeds

WatchFees == {QuarterGwei}

InitWatch == InitFrom({StoredIncoming}, {})

NextWatch ==
    \/ PeerStartsDispute("c1")
    \/ PeerDeposits("c1", HalfGwei)
    \/ WatcherTick(Self)
    \/ \E p \in polls : WatcherPolled(p)
    \/ RunClaim(Self)
    \/ ClaimUpdated(Self)
    \/ \E txFee \in WatchFees, authorized \in BOOLEAN :
            ClaimPrepared(Self, txFee, authorized)
    \/ ClaimPrepareFails(Self)
    \/ \E ok \in BOOLEAN : ClaimTx(Self, ok)
    \/ ClaimRefreshed(Self)
    \/ ClaimRefreshFails(Self)

FairWatch ==
    /\ WF_vars(WatcherTick(Self))
    /\ WF_vars(\E p \in polls : WatcherPolled(p))
    /\ WF_vars(RunClaim(Self))
    /\ WF_vars(ClaimUpdated(Self))
    /\ SF_vars(\E txFee \in WatchFees, authorized \in BOOLEAN :
                    ClaimPrepared(Self, txFee, authorized))
    /\ SF_vars(ClaimTx(Self, TRUE))
    /\ SF_vars(ClaimRefreshed(Self))

SpecWatch == InitWatch /\ [][NextWatch]_vars /\ FairWatch

----------------------------------------------------------------------------
\* validateClaim waiting for the chain: the peer sends a claim above the
\* channel's value, a claim over a channel that is not open yet and one over
\* that channel signed with another key; the deposit and the opening may come
\* at any time or never.  The awaits of the reducer (delay, store, money
\* handler) resolve.

NextRetry ==
    \/ \E claim \in {PeerClaim("0xAA", "c1", 3 * HalfGwei),
                      PeerClaim("0xAA", "c2", HalfGwei),
                      PeerClaim("0xBB", "c2", HalfGwei)} : HandleMachinomy(Self, claim)
    \/ RunValidate(Self)
    \/ ValidateAgain(Self)
    \/ ValidateLoaded(Self)
    \/ \E ok \in BOOLEAN : ValidateMoney(Self, ok)
    \/ PeerDeposits("c1", HalfGwei)
    \/ PeerOpens("c2", walletAddress, 1, WeiPerGwei)

SpecRetry ==
    /\ InitIn
    /\ [][NextRetry]_vars
    /\ WF_vars(ValidateAgain(Self))
    /\ WF_vars(ValidateLoaded(Self))
    /\ WF_vars(\E ok \in BOOLEAN : ValidateMoney(Self, ok))

----------------------------------------------------------------------------
\* Two accounts of one peer claiming channels

LinkClaims == {PeerClaim("0xAA", id, v) : id \in InChannelIds, v \in {0, WeiPerGwei}}

InitLink == InitFrom({undefined}, {"c1"})

NextLink ==
    \/ \E a \in Accounts, claim \in LinkClaims : HandleMachinomy(a, claim)
    \/ \E a \in Accounts : RunValidate(a)
    \/ \E a \in Accounts, attempts \in {1, MaxAttempts + 1} : ValidateRetry(a, attempts)
    \/ \E a \in Accounts : ValidateLoaded(a)
    \/ \E a \in Accounts, ok \in BOOLEAN : ValidateMoney(a, ok)
    \/ PeerOpens("c2", walletAddress, 1, WeiPerGwei)

SpecLink == InitLink /\ [][NextLink]_vars

----------------------------------------------------------------------------
\* Inbound packets and the receivable balance

PacketAmounts == {1, 2, 3}
IlpClaims == {PeerClaim("0xAA", "c1", WeiPerGwei)}

InitIlp == InitFrom({undefined}, {"c1"})

NextIlp ==
    \/ \E a \in Accounts, amount \in PacketAmounts : PrepareArrives(a, amount)
    \/ \E p \in inflight.packets, outcome \in {"fulfill", "reject", "throw"} :
            HandlerReplies(p, outcome)
    \/ \E claim \in IlpClaims : HandleMachinomy(Self, claim)
    \/ RunValidate(Self)
    \/ ValidateLoaded(Self)
    \/ \E ok \in BOOLEAN : ValidateMoney(Self, ok)

SpecIlp == InitIlp /\ [][NextIlp]_vars

----------------------------------------------------------------------------
\* The peer's address: info messages against the opening of a channel

NextInfo ==
    \/ NextOut
    \/ \E address \in InfoAddresses : HandleInfo(address)
    \/ \E address \in InfoAddresses : OpenInfoResponse(address)

SpecInfo == InitOut /\ [][NextInfo]_vars

----------------------------------------------------------------------------
\* Both engines of one account side by side: claims come in while claims
\* go out and the outgoing channel is opened and topped up

CellClaims == {PeerClaim("0xAA", "c1", v) : v \in {WeiPerGwei, 3 * HalfGwei}}

InitCells == InitFrom({StoredIncoming}, {})

NextCells ==
    \/ \E amount \in {1} : SendMoney(amount)
    \/ \E value \in FundValues : FundOutgoingChannel(value)
    \/ QueueAutoFund
    \/ RunCreateClaim
    \/ RunSideCreateClaim
    \/ RunDetachedCreateClaim
    \/ RunFund
    \/ RunAutoFundNoop
    \/ RunAutoFund
    \/ \E address \in {"0xAA"} : OpenInfoResponse(address)
    \/ \E ok \in BOOLEAN : OpenTx(ok)
    \/ OpenCommit
    \/ \E ok \in BOOLEAN : DepositTx(ok)
    \/ DepositRefreshed
    \/ DepositRefreshFails
    \/ DepositCommit
    \/ \E claim \in CellClaims : HandleMachinomy(Self, claim)
    \/ RunValidate(Self)
    \/ \E attempts \in {1, MaxAttempts + 1} : ValidateRetry(Self, attempts)
    \/ \E ok \in BOOLEAN : ValidateMoney(Self, ok)
    \/ PeerDeposits("c1", WeiPerGwei)
    \/ HandleChannelDeposit(Self)
    \/ \E p \in polls : DepositPolled(p)
    \/ RunReconcile(Self)

SpecCells == InitCells /\ [][NextCells]_vars

----------------------------------------------------------------------------
\* The outgoing engine with the replies to forwarded PREPAREs that are REJECTs

NextReply ==
    \/ NextOut
    \/ \E code \in {"T04", "F99"} : HandleReject(code)

SpecReply == InitOut /\ [][NextReply]_vars

----------------------------------------------------------------------------
\* Settlement on FULFILLs and on sendMoney() without an amount, with and
\* without a sufficient incoming channel behind autoFund's gate

NextSettle ==
    \/ SendMoney(-1)
    \/ HandleFulfill(1)
    \/ \E value \in {HalfGwei, WeiPerGwei} : FundOutgoingChannel(value)
    \/ QueueAutoFund
    \/ RunCreateClaim
    \/ RunSideCreateClaim
    \/ RunDetachedCreateClaim
    \/ RunFund
    \/ RunAutoFundNoop
    \/ RunAutoFund
    \/ \E address \in {"0xAA", ""} : OpenInfoResponse(address)
    \/ \E ok \in BOOLEAN : OpenTx(ok)
    \/ OpenCommit
    \/ \E cause \in {"prepare", "authorize"} : DepositNotSent(cause)
    \/ \E ok \in BOOLEAN : DepositTx(ok)
    \/ DepositRefreshed
    \/ DepositRefreshFails
    \/ DepositCommit

SpecSettle == InitIn /\ [][NextSettle]_vars

----------------------------------------------------------------------------
\* claimIfProfitable from each of its callers: the watcher's way (no
\* authorize), the administrator's (a callback that resolves or rejects) and
\* requestClose, with fees below, at and above the cached claim

NextClaim ==
    \/ \E requireDisputed \in BOOLEAN, authorize \in {"none", "callback"} :
            ClaimIfProfitable(Self, requireDisputed, authorize)
    \/ HandleRequestClose(Self)
    \/ RunClaim(Self)
    \/ ClaimUpdated(Self)
    \/ \E txFee \in Fees \cup WatchFees, authorized \in BOOLEAN :
            ClaimPrepared(Self, txFee, authorized)
    \/ ClaimPrepareFails(Self)
    \/ \E ok \in BOOLEAN : ClaimTx(Self, ok)
    \/ ClaimRefreshed(Self)
    \/ ClaimRefreshFails(Self)
    \/ PeerStartsDispute("c1")
    \/ PeerDeposits("c1", HalfGwei)
    \/ HandleChannelDeposit(Self)
    \/ \E p \in polls : DepositPolled(p)
    \/ RunReconcile(Self)

SpecClaim == InitWatch /\ [][NextClaim]_vars

----------------------------------------------------------------------------
\* Round trip: the claims of the outgoing engine are delivered to an account
\* of a plugin whose wallet is the address the channel pays to (the peer's
\* info response names this wallet, so channel o1 has it as sender and as
\* receiver); the money handler resolves

NextTrip ==
    \/ SendMoney(1)
    \/ \E value \in {HalfGwei, WeiPerGwei} : FundOutgoingChannel(value)
    \/ RunCreateClaim
    \/ RunSideCreateClaim
    \/ RunDetachedCreateClaim
    \/ RunFund
    \/ RunAutoFundNoop
    \/ OpenInfoResponse(walletAddress)
    \/ OpenTx(TRUE)
    \/ OpenCommit
    \/ DepositTx(TRUE)
    \/ DepositRefreshed
    \/ DepositCommit
    \/ lastSent # NoClaim /\ HandleMachinomy("bob", lastSent)
    \/ RunValidate("bob")
    \/ ValidateLoaded("bob")
    \/ ValidateMoney("bob", TRUE)

SpecTrip == InitLink /\ [][NextTrip]_vars

----------------------------------------------------------------------------
\* The order of the incoming queue: claims to validate and calls of
\* claimIfProfitable (the watcher's and the administrator's) pile up behind a
\* running reducer

SpecQueue ==
    /\ InitWatch
    /\ [][\/ \E claim \in {PeerClaim("0xAA", "c1", v) : v \in {HalfGwei, WeiPerGwei}} :
                /\ Len(incoming[Self].queue) < MaxPending
                /\ QueueValidateClaim(Self, claim)
          \/ \E requireDisputed \in BOOLEAN :
                /\ Len(incoming[Self].queue) < MaxPending
                /\ QueueClaimIfProfitable(Self, requireDisputed, "none")
          \/ RunValidate(Self)
          \/ ValidateAgain(Self)
          \/ \E ok \in BOOLEAN : ValidateMoney(Self, ok)
          \/ RunClaim(Self)
          \/ ClaimUpdated(Self)
          \/ ClaimPrepared(Self, QuarterGwei, FALSE)
          \/ \E ok \in BOOLEAN : ClaimTx(Self, ok)
          \/ ClaimRefreshed(Self)
          \/ PeerStartsDispute("c1")
         ]_vars

----------------------------------------------------------------------------
\* Reducers that fail: the opening and the topping up of the outgoing channel
\* and the claiming of the incoming one, each with the rejections its awaits
\* can end in, and reducers waiting behind them

SpecFail ==
    /\ InitWatch
    /\ [][\/ FundOutgoingChannel(HalfGwei)
          \/ RunFund
          \/ RunAutoFundNoop
          \/ RunAutoFund
          \/ RunSideCreateClaim
          \/ RunDetachedCreateClaim
          \/ RunOrphanCreateClaim
          \/ OpenInfoResponse("0xAA")
          \/ \E cause \in {"prepare", "authorize"} : OpenNotSent(cause)
          \/ \E ok \in BOOLEAN : OpenTx(ok)
          \/ OpenCommit
          \/ OpenRefreshFails
          \/ DepositSetupFails
          \/ \E ok \in BOOLEAN : DepositTx(ok)
          \/ DepositRefreshed
          \/ DepositCommit
          \/ ClaimIfProfitable(Self, FALSE, "callback")
          \/ RunClaim(Self)
          \/ ClaimUpdated(Self)
          \/ ClaimPrepared(Self, QuarterGwei, TRUE)
          \/ ClaimPrepareFails(Self)
          \/ \E ok \in BOOLEAN : ClaimTx(Self, ok)
          \/ ClaimRefreshed(Self)
          \/ ClaimRefreshFails(Self)
         ]_vars

----------------------------------------------------------------------------
\* validateClaim against everything it rejects: claims with a negative
\* value, another contract, another signer, a value the channel does not
\* have, over a channel that is absent, paid to someone else, with a short
\* dispute period, linked to the other account, or not the cached one; and a
\* money handler that throws

GateClaims ==
    {PeerClaim("0xAA", "c1", v) : v \in {-1, 0, WeiPerGwei, 3 * HalfGwei}}
        \cup {PeerClaim("0xBB", "c1", WeiPerGwei), PeerClaim("0xAA", "c2", HalfGwei),
               [PeerClaim("0xAA", "c1", WeiPerGwei) EXCEPT
                    !.contractAddress = "0xother",
                    !.signature = SignDigest("0xAA", "0xother", "c1", WeiPerGwei)]}

SpecGate ==
    /\ InitIn
    /\ [][\/ \E claim \in GateClaims : HandleMachinomy(Self, claim)
          \/ HandleMachinomy("bob", PeerClaim("0xAA", "c1", HalfGwei))
          \/ \E a \in Accounts : RunValidate(a)
          \/ ValidateAgain(Self)
          \/ \E a \in Accounts : ValidateLoaded(a)
          \/ \E a \in Accounts, ok \in BOOLEAN : ValidateMoney(a, ok)
          \/ \E receiver \in {walletAddress, "0xBB"}, disputePeriod \in {0, 1} :
                PeerOpens("c2", receiver, disputePeriod, WeiPerGwei)
         ]_vars

----------------------------------------------------------------------------
\* The life of an incoming channel: claims over it and over a second channel,
\* deposits and the channelDeposit message, the watcher, disconnect, and a
\* sender who starts a dispute, settles, and opens a channel again under an
\* id that is free (to this wallet or to another receiver)

SpecLife ==
    /\ InitWatch
    /\ [][\/ \E claim \in {PeerClaim("0xAA", "c1", 3 * HalfGwei),
                            PeerClaim("0xAA", "c2", WeiPerGwei)} :
                HandleMachinomy(Self, claim)
          \/ RunValidate(Self)
          \/ \E attempts \in {1, MaxAttempts + 1} : ValidateRetry(Self, attempts)
          \/ ValidateLoaded(Self)
          \/ \E ok \in BOOLEAN : ValidateMoney(Self, ok)
          \/ HandleRequestClose(Self)
          \/ RunClaim(Self)
          \/ ClaimUpdated(Self)
          \/ ClaimPrepared(Self, QuarterGwei, TRUE)
          \/ \E ok \in BOOLEAN : ClaimTx(Self, ok)
          \/ ClaimRefreshed(Self)
          \/ ClaimRefreshFails(Self)
          \/ PeerDeposits("c1", HalfGwei)
          \/ PeerStartsDispute("c1")
          \/ PeerSettles("c1")
          \/ \E id \in InChannelIds : PeerOpens(id, walletAddress, 1, WeiPerGwei)
          \/ \E id \in InChannelIds : PeerOpens(id, "0xBB", 0, WeiPerGwei)
         ]_vars

----------------------------------------------------------------------------
\* The watcher's timer over the life of the account: it starts with the
\* account, stops itself on a tick that finds no cached channel, is started
\* again by validateClaim, and is cleared by disconnect; the sender disputes,
\* settles and opens its channel again while ticks and reducers are under way

SpecTimer ==
    /\ InitIn
    /\ [][\/ \E value \in {WeiPerGwei, 3 * HalfGwei} :
                HandleMachinomy(Self, PeerClaim("0xAA", "c1", value))
          \/ RunValidate(Self)
          \/ \E attempts \in {1, MaxAttempts + 1} : ValidateRetry(Self, attempts)
          \/ ValidateLoaded(Self)
          \/ \E ok \in BOOLEAN : ValidateMoney(Self, ok)
          \/ WatcherTick(Self)
          \/ \E p \in polls : WatcherPolled(p)
          \/ Disconnect(Self)
          \/ RunClaim(Self)
          \/ ClaimUpdated(Self)
          \/ ClaimPrepared(Self, QuarterGwei, FALSE)
          \/ \E ok \in BOOLEAN : ClaimTx(Self, ok)
          \/ ClaimRefreshed(Self)
          \/ ClaimRefreshFails(Self)
          \/ PeerDeposits("c1", HalfGwei)
          \/ PeerStartsDispute("c1")
          \/ PeerSettles("c1")
          \/ PeerOpens("c1", walletAddress, 1, WeiPerGwei)
         ]_vars

----------------------------------------------------------------------------
\* The channelDeposit message against validateClaim and claimIfProfitable:
\* while checkForDeposit polls outside the queue, claims are validated, the
\* channel is claimed and closed, and the sender opens channels (the same id
\* again, and a second one that gets linked in its place)

SpecDeposit ==
    /\ InitWatch
    /\ [][\/ HandleChannelDeposit(Self)
          \/ \E p \in polls : DepositPolled(p)
          \/ \E p \in polls : DepositPollGivesUp(p)
          \/ RunReconcile(Self)
          \/ \E claim \in {PeerClaim("0xAA", "c1", 3 * HalfGwei),
                            PeerClaim("0xAA", "c2", WeiPerGwei)} :
                HandleMachinomy(Self, claim)
          \/ RunValidate(Self)
          \/ \E attempts \in {1, MaxAttempts + 1} : ValidateRetry(Self, attempts)
          \/ ValidateLoaded(Self)
          \/ \E ok \in BOOLEAN : ValidateMoney(Self, ok)
          \/ HandleRequestClose(Self)
          \/ RunClaim(Self)
          \/ ClaimUpdated(Self)
          \/ ClaimPrepared(Self, QuarterGwei, TRUE)
          \/ \E ok \in BOOLEAN : ClaimTx(Self, ok)
          \/ ClaimRefreshed(Self)
          \/ ClaimRefreshFails(Self)
          \/ PeerDeposits("c1", HalfGwei)
          \/ \E id \in InChannelIds : PeerOpens(id, walletAddress, 1, WeiPerGwei)
         ]_vars

----------------------------------------------------------------------------
\* The outgoing engine with the side queue's reducers run to their end: a
\* ReducerQueue runs what is added to it

SpecSide ==
    /\ InitOut
    /\ [][NextOut]_vars
    /\ WF_vars(RunSideCreateClaim)
    /\ WF_vars(RunDetachedCreateClaim)

----------------------------------------------------------------------------
\* Properties

\* C1: for a given outgoing channel, the spent committed to the outgoing
\* queue never decreases, whatever the interleaving of sendMoney, createClaim,
\* autoFund and fundOutgoingChannel, and whether deposits succeed or fail.
C1_OutgoingSpentNeverDecreases ==
    [][(/\ IsDefined(outgoing.state)
        /\ IsDefined(outgoing'.state)
        /\ outgoing'.state.channelId = outgoing.state.channelId)
       => outgoing'.state.spent >= outgoing.state.spent]_vars

\* a deposit was committed and the claims signed since go beyond the
\* channel's first value
C1_Witness ==
    /\ IsDefined(outgoing.state)
    /\ [method |-> "deposit", channelId |-> outgoing.state.channelId] \in txLog
    /\ outgoing.state.value > outgoingChannelAmount
    /\ outgoing.state.spent > outgoingChannelAmount

\* C2: in every reachable state every committed channel that carries a claim
\* (the outgoing cell, the deposit side queue's cell while it exists or
\* drains, and each account's incoming cell) has 0 <= spent <= value.
SpentWithinValue(channel) ==
    hasClaim(channel) => (0 <= channel.spent /\ channel.spent <= channel.value)

Accepts(a) ==
    /\ inRun[a].pc \in {"v_load", "v_money"}
    /\ inRun'[a].pc = "idle"
    /\ incoming'[a].state = AcceptedChannel(inRun[a].updated, inRun[a].claim)

\* C3: the claims validateClaim accepts on one incoming channel have strictly
\* increasing spent, the first of a new channel being at least zero; no
\* other reducer on the incoming queue (channelDeposit reconciliation,
\* claimIfProfitable) changes the claim of a channel it keeps.
C3_AcceptedClaimsIncrease ==
    [][\A a \in Accounts :
        /\ Accepts(a) =>
                IF IsDefined(incoming[a].state)
                THEN /\ incoming'[a].state.channelId = incoming[a].state.channelId
                     /\ incoming'[a].state.spent > incoming[a].state.spent
                ELSE incoming'[a].state.spent >= 0
        /\ (~Accepts(a) /\ IsDefined(incoming[a].state) /\ IsDefined(incoming'[a].state))
                => /\ incoming'[a].state.channelId = incoming[a].state.channelId
                   /\ incoming'[a].state.spent = incoming[a].state.spent
                   /\ incoming'[a].state.signature = incoming[a].state.signature]_vars

\* a claim beyond the channel's first value was accepted after the peer's
\* deposit, on a channel the peer has disputed in the meantime
C3_Witness ==
    /\ inRun[Self].pc = "idle"
    /\ hasClaim(incoming[Self].state)
    /\ incoming[Self].state.spent = 3 * HalfGwei
    /\ incoming[Self].state.value = 2 * WeiPerGwei
    /\ incoming[Self].state.disputed

\* the step in which account a's validateClaim reducer finds the claim's
\* channelId registered in the store
FindsLinked(a) ==
    /\ inRun[a].pc = "v_load"
    /\ inRun'[a].pc = "idle"
    /\ store[inRun[a].claim.channelId] # ""

\* C4: two different accounts never hold an incoming channel with the same
\* channelId, also when their validateClaim reducers for the same first claim
\* run concurrently; the account that finds the channelId registered rejects
\* the claim: its incoming state stays empty, no other account's state and
\* no registration changes.
C4_OneAccountPerChannel ==
    /\ [](\A a, b \in Accounts :
            (a # b /\ IsDefined(incoming[a].state) /\ IsDefined(incoming[b].state))
                => incoming[a].state.channelId # incoming[b].state.channelId)
    /\ [][\A a \in Accounts :
            FindsLinked(a) =>
                /\ ~IsDefined(incoming'[a].state)
                /\ \A b \in Accounts : incoming'[b].state = incoming[b].state
                /\ store' = store]_vars

\* alice holds channel c1 while bob's reducer, past every check of the same
\* claim, is about to look c1 up in the store
C4_Witness ==
    /\ IsDefined(incoming["alice"].state)
    /\ incoming["alice"].state.channelId = "c1"
    /\ store["c1"] = "alice"
    /\ inRun["bob"].pc = "v_load"
    /\ inRun["bob"].claim.channelId = "c1"
    /\ ~IsDefined(incoming["bob"].state)

\* C5: receivableBalance never exceeds maxBalance, whatever the interleaving
\* of inbound PREPAREs in flight, their FULFILL and REJECT replies and
\* accepted incoming claims.
C5_ReceivableWithinMaxBalance ==
    \A a \in Accounts : receivableBalance[a] <= maxBalance

\* the balance is at the limit with two PREPAREs of the account in flight
\* at once, after a claim was credited
C5_Witness ==
    /\ receivableBalance[Self] = maxBalance
    /\ Cardinality({p \in inflight.packets : p.account = Self}) = 2
    /\ hasClaim(incoming[Self].state)

\* C6: over a packet cycle of handleData with no other balance change in
\* between, a cycle ending in FULFILL raises receivableBalance by exactly the
\* packet's amount, and a cycle ending in REJECT (from the data handler, from
\* a limit error or from an exception of the data handler) leaves it as it
\* was.
C6_BalanceConservedOverCycle ==
    (inflight.last.reply # "" /\ inflight.last.alone) =>
        /\ inflight.last.reply = "FULFILL" =>
                inflight.last.after = inflight.last.before + inflight.last.amount
        /\ inflight.last.reply = "REJECT" =>
                inflight.last.after = inflight.last.before

\* C7: an inbound PREPARE reaches the data handler if and only if
\* amount <= maxPacketAmount and receivableBalance + amount <= maxBalance;
\* otherwise the reply is a REJECT from AmountTooLargeError (checked first)
\* or from InsufficientLiquidityError, and receivableBalance is unchanged.
C7_ForwardedIffWithinLimits ==
    inflight.last.account # "" =>
        /\ inflight.last.forwarded <=>
                (/\ inflight.last.amount <= maxPacketAmount
                 /\ inflight.last.before + inflight.last.amount <= maxBalance)
        /\ ~inflight.last.forwarded =>
                /\ inflight.last.reply = "REJECT"
                /\ inflight.last.cause =
                        IF inflight.last.amount > maxPacketAmount
                        THEN "AmountTooLargeError"
                        ELSE "InsufficientLiquidityError"
                /\ inflight.last.after = inflight.last.before

\* at maxBalance - 1 a packet of 2, within maxPacketAmount, was turned away
C7_Witness ==
    /\ inflight.last.before = maxBalance - 1
    /\ inflight.last.amount = 2
    /\ inflight.last.cause = "InsufficientLiquidityError"
    /\ ~inflight.last.forwarded

\* C8: once the peer's address is set on the account, no info message and
\* no response to the account's own info request changes it: another
\* address is refused, the same address changes nothing.
C8_PeerAddressNeverChanges ==
    [][ethereumAddress # "" => ethereumAddress' = ethereumAddress]_vars

\* an info message has set the address while openChannel still waits for
\* the peer's response to its own request
C8_Witness ==
    /\ ethereumAddress = "0xaa"
    /\ outRun.pc = "open_info"

\* C9: when the peer sends requestClose and the fee of the claim is greater
\* than or equal to the spent of the cached incoming claim, no claim
\* transaction is submitted (and so the cached claim is kept): a reducer
\* queued by requestClose goes on to master._queueTransaction only with a fee
\* below the claim.
C9_UnprofitableCloseNotClaimed ==
    \A a \in Accounts :
        (inRun[a].pc = "c_tx" /\ inRun[a].authorize = "resolve")
            => inRun[a].txFee < inRun[a].updated.spent

ClaimSubmitted(id) == [method |-> "claim", channelId |-> id] \in txLog

\* C10: if an incoming channel with a cached claim is disputed on-chain and
\* the claim fee is below the claim's spent, then, with the watcher ticking
\* and transactions confirming, a claim transaction is eventually submitted,
\* the incoming state eventually becomes empty and the watcher eventually
\* stops.
C10_DisputedChannelIsClaimed ==
    (hasClaim(incoming[Self].state) /\ chain[incoming[Self].state.channelId].disputed)
        ~> (/\ ClaimSubmitted("c1")
            /\ ~IsDefined(incoming[Self].state)
            /\ ~watcher[Self].active)

\* the disputed channel was claimed and is gone from the chain, the incoming
\* state is empty and the watcher has stopped itself
C10_Witness ==
    /\ ClaimSubmitted("c1")
    /\ ~IsDefined(chain["c1"])
    /\ ~IsDefined(incoming[Self].state)
    /\ ~watcher[Self].active
    /\ ~watcher[Self].ref

\* C11: when claimIfProfitable reaches the profitability step without an
\* authorize callback, the claim transaction is submitted if and only if
\* fee < spent; with an authorize callback it is submitted if and only if the
\* callback resolves.  A reducer that does not submit returns the refreshed
\* channel, and a claim transaction enters the log from the submitting step
\* only.
C11_SubmitsIffProfitableOrAuthorized ==
    [][/\ \A a \in Accounts, txFee \in Fees \cup WatchFees, authorized \in BOOLEAN :
            ClaimPrepared(a, txFee, authorized) =>
                /\ inRun[a].authorize = "none" =>
                        (inRun'[a].pc = "c_tx" <=> txFee < inRun[a].updated.spent)
                /\ inRun[a].authorize = "callback" =>
                        (inRun'[a].pc = "c_tx" <=> authorized)
                /\ inRun'[a].pc # "c_tx" =>
                        /\ inRun'[a].pc = "idle"
                        /\ incoming'[a].state = inRun[a].updated
                /\ txLog' = txLog
       /\ \A id \in InChannelIds :
            (ClaimSubmitted(id)' /\ ~ClaimSubmitted(id)) =>
                \E a \in Accounts : inRun[a].pc = "c_tx" /\ inRun[a].updated.channelId = id
      ]_vars

\* a reducer queued the watcher's way (no authorize, requireDisputed) is about
\* to submit the first claim transaction, with a fee below the cached claim
C11_Witness ==
    /\ inRun[Self].pc = "c_tx"
    /\ inRun[Self].authorize = "none"
    /\ inRun[Self].requireDisputed
    /\ inRun[Self].txFee = QuarterGwei
    /\ inRun[Self].updated.spent = HalfGwei
    /\ ~ClaimSubmitted("c1")

\* C12 as stated: if the authorize callback given to fundOutgoingChannel
\* rejects, no open or deposit transaction is submitted and the reducer
\* returns the prior outgoing channel state, both when opening a new channel
\* and when depositing to an existing one.
C12_AuthorizeRejectedKeepsPriorState ==
    [][/\ OpenNotSent("authorize") =>
            (txLog' = txLog /\ outgoing'.state = outgoing.state)
       /\ (outRun.failed = "authorize" \/ outRun'.failed = "authorize") =>
            txLog' = txLog
       /\ (outRun.pc = "dep_wait" /\ outRun.failed = "authorize" /\ outRun'.pc = "idle") =>
            outgoing'.state = outgoing.state
      ]_vars

\* C12, amended: if the authorize callback rejects, no open or deposit
\* transaction is submitted; when opening, the outgoing state stays as it
\* was; when depositing, the reducer returns the state of the deposit side
\* queue, which is the prior state but for the spent and the signature of the
\* claims signed in the side queue while the reducer ran.
C12_AuthorizeRejectedSendsNothing ==
    [][/\ OpenNotSent("authorize") =>
            (txLog' = txLog /\ outgoing'.state = outgoing.state)
       /\ (outRun.failed = "authorize" \/ outRun'.failed = "authorize") =>
            txLog' = txLog
       /\ (outRun.pc = "dep_wait" /\ outRun.failed = "authorize" /\ outRun'.pc = "idle") =>
            /\ outgoing'.state =
                    [outgoing.state EXCEPT !.spent = outRun.side.state.spent,
                                           !.signature = outRun.side.state.signature]
            /\ outgoing'.state.spent >= outgoing.state.spent
      ]_vars

\* the caller's authorize has rejected a deposit, the cleared side queue has
\* drained and holds a claim signed while the reducer ran
C12_Witness ==
    /\ outRun.pc = "dep_wait"
    /\ outRun.failed = "authorize"
    /\ outRun.side.queue = <<>>
    /\ outRun.side.state.spent > outgoing.state.spent
    /\ [method |-> "deposit", channelId |-> outgoing.state.channelId] \notin txLog

\* C13: when a deposit reducer finishes, whether the deposit transaction
\* succeeded or failed, the state it commits to the outgoing queue carries the
\* spent and the signature of the last claim signed in the deposit side
\* queue (every claim signed there is the side queue's state from then on),
\* so no claim signed while the deposit was pending is lost; on success the
\* committed value is the value before the deposit plus the deposited amount.
C13_DepositCommitsSideQueueClaim ==
    [][/\ (outRun.pc = "dep_wait" /\ outRun'.pc = "idle") =>
            /\ outRun.side.queue = <<>>
            /\ outgoing'.state.spent = outRun.side.state.spent
            /\ outgoing'.state.signature = outRun.side.state.signature
            /\ outgoing'.state.spent >= outgoing.state.spent
            /\ outRun.failed = "" =>
                    outgoing'.state.value = outgoing.state.value + outRun.value
       /\ (depositQueue.exists /\ depositQueue'.exists /\ outRun' = outRun
                /\ depositQueue'.state # depositQueue.state) =>
            /\ lastSent' = SerializedClaim(depositQueue'.state)
            /\ depositQueue'.state.spent > depositQueue.state.spent
       /\ (outRun.pc = "dep_wait" /\ outRun'.pc = "dep_wait"
                /\ outRun'.side.state # outRun.side.state) =>
            /\ lastSent' = SerializedClaim(outRun'.side.state)
            /\ outRun'.side.state.spent > outRun.side.state.spent
       /\ (outRun.pc \in {"dep_prepare", "dep_refresh"} /\ outRun'.pc = "dep_wait") =>
            outRun'.side.state = depositQueue.state
      ]_vars

\* a deposit has succeeded and its side queue has drained with a claim
\* signed while the deposit was pending
C13_Witness ==
    /\ outRun.pc = "dep_wait"
    /\ outRun.failed = ""
    /\ outRun.side.queue = <<>>
    /\ outRun.side.state.spent > outgoing.state.spent
    /\ outRun.updated.value = outgoing.state.value + outRun.value
    /\ lastSent = SerializedClaim(outRun.side.state)

C17_SettlesNoMoreThanOwed == payableBalance >= 0

\* C15: fundOutgoingChannel(v) on an account with no outgoing channel
\* submits an open transaction only when the peer's address is linked; the
\* reducer submits one open transaction (the step that submits it leaves
\* the submitting stage), waits until the channel is visible on-chain, and
\* only then, in its last step, transmits the zero-value claim and commits
\* the outgoing state with value = v and spent = 0.  If the peer's address
\* cannot be obtained, no transaction is submitted and the outgoing state
\* stays empty.
C15_OpenOnlyWhenLinkedThenClaim ==
    /\ [](outRun.pc \in {"open_tx", "open_refresh"} => ethereumAddress # "")
    /\ [][/\ (\E id \in OutChannelIds :
                   /\ [method |-> "open", channelId |-> id] \in txLog'
                   /\ [method |-> "open", channelId |-> id] \notin txLog) =>
               /\ outRun.pc = "open_tx"
               /\ ethereumAddress # ""
               /\ ~IsDefined(outgoing.state)
               /\ outRun'.pc \in {"open_refresh", "idle"}
          /\ (~IsDefined(outgoing.state) /\ IsDefined(outgoing'.state)) =>
               /\ outRun.pc = "open_refresh"
               /\ outRun'.pc = "idle"
               /\ [method |-> "open", channelId |-> outgoing'.state.channelId] \in txLog
               /\ IsDefined(chain[outgoing'.state.channelId])
               /\ outgoing'.state.value = outRun.value
               /\ outgoing'.state.spent = 0
               /\ outgoing'.state.receiver = ethereumAddress
               /\ lastSent' = SerializedClaim(outgoing'.state)
               /\ lastSent'.signature =
                       SignDigest(walletAddress, contractAddress, lastSent'.channelId, 0)
          /\ (lastSent' # lastSent /\ lastSent'.value = 0) =>
               (~IsDefined(outgoing.state) /\ IsDefined(outgoing'.state))
          /\ (outRun.pc = "open_info" /\ outRun'.pc = "idle") =>
               /\ ethereumAddress' = ""
               /\ txLog' = txLog
               /\ lastSent' = lastSent
               /\ ~IsDefined(outgoing'.state)
          ]_vars

\* fundOutgoingChannel(0.5 gwei) has opened the channel: it is on-chain, the
\* zero-value claim was the last thing sent and the state is committed
C15_Witness ==
    /\ outRun.pc = "idle"
    /\ hasClaim(outgoing.state)
    /\ outgoing.state.value = HalfGwei
    /\ outgoing.state.spent = 0
    /\ lastSent = SerializedClaim(outgoing.state)
    /\ [method |-> "open", channelId |-> outgoing.state.channelId] \in txLog
    /\ IsDefined(chain[outgoing.state.channelId])
    /\ ethereumAddress = "0xAA"

\* C16: payoutAmount is never negative and is the backlog of what was
\* requested through sendMoney and is not yet in a signed claim: sendMoney
\* adds the amount requested, and a createClaim reducer (on the outgoing
\* queue, on the deposit side queue, or on that queue once cleared) takes
\* off exactly the gwei by which it raised the signed spent, so that what a
\* claim capped by the channel's remaining capacity could not settle stays
\* in payoutAmount.
C16_PayoutIsUnsettledBacklog ==
    /\ [](payoutAmount >= 0)
    /\ [][/\ \A amount \in {-1, 1} :
                SendMoney(amount) => payoutAmount' = payoutAmount + AmountToSend(amount)
          /\ RunCreateClaim =>
                payoutAmount' = payoutAmount
                    - WeiToGweiDown(outgoing'.state.spent - outgoing.state.spent)
          /\ RunSideCreateClaim =>
                payoutAmount' = payoutAmount
                    - WeiToGweiDown(depositQueue'.state.spent - depositQueue.state.spent)
          /\ RunDetachedCreateClaim =>
                payoutAmount' = payoutAmount
                    - WeiToGweiDown(outRun'.side.state.spent - outRun.side.state.spent)
          ]_vars

\* C18: on a REJECT with code T04 while an outgoing claim exists, the claim
\* transmitted again is the latest claim signed for the outgoing channel,
\* also when newer claims were signed in the deposit side queue during a
\* pending deposit, and no balance or channel state changes; on any other
\* REJECT nothing is transmitted and nothing changes.
C18_RejectResendsLatestClaim ==
    [][/\ (HandleReject("T04") /\ hasClaim(outgoing.state)) =>
            /\ lastSent'.channelId = outgoing.state.channelId
            /\ lastSent'.value >= outgoing.state.spent
            /\ depositQueue.exists => lastSent'.value >= depositQueue.state.spent
            /\ outRun.side.exists => lastSent'.value >= outRun.side.state.spent
            /\ lastSent'.signature =
                    SignDigest(walletAddress, contractAddress, lastSent'.channelId,
                               lastSent'.value)
            /\ UNCHANGED <<payableBalance, payoutAmount, outgoing, depositQueue, outRun,
                           incoming, receivableBalance, chain, txLog>>
       /\ (HandleReject("T04") /\ ~hasClaim(outgoing.state)) => UNCHANGED vars
       /\ HandleReject("F99") => UNCHANGED vars
      ]_vars

\* C19: a validly signed claim of value 0 is accepted when the account has
\* no cached incoming claim: it gets past every check of a new channel and,
\* the channel not being registered, links it (registry and cached claim
\* with spent 0) without crediting anything.  When a cached incoming claim
\* exists, a claim of value 0 is rejected with the state unchanged.
C19_ZeroClaimOnlyLinksNewChannel ==
    [][\A a \in Accounts :
        /\ (/\ inRun[a].pc = "idle"
            /\ incoming[a].queue # <<>>
            /\ Head(incoming[a].queue).kind = "validate"
            /\ Head(incoming[a].queue).claim.value = 0
            /\ incoming'[a].queue = Tail(incoming[a].queue)) =>
            LET claim == Head(incoming[a].queue).claim
                channel == chain[claim.channelId]
            IN  IF IsDefined(incoming[a].state)
                THEN /\ inRun'[a].pc = "idle"
                     /\ incoming'[a].state = incoming[a].state
                     /\ receivableBalance' = receivableBalance
                     /\ store' = store
                ELSE (/\ IsDefined(channel)
                      /\ ToLowerCase(channel.receiver) = ToLowerCase(walletAddress)
                      /\ channel.disputePeriod >= minIncomingDisputePeriod
                      /\ claim.contractAddress = contractAddress
                      /\ claim.signature =
                            SignDigest(channel.sender, contractAddress, claim.channelId, 0))
                        => inRun'[a].pc = "v_load"
        /\ (/\ inRun[a].pc = "v_load"
            /\ inRun'[a].pc # "v_load"
            /\ inRun[a].claim.value = 0
            /\ store[inRun[a].claim.channelId] = "") =>
            /\ inRun'[a].pc = "idle"
            /\ hasClaim(incoming'[a].state)
            /\ incoming'[a].state.channelId = inRun[a].claim.channelId
            /\ incoming'[a].state.spent = 0
            /\ incoming'[a].state.signature = inRun[a].claim.signature
            /\ store'[inRun[a].claim.channelId] = a
            /\ receivableBalance' = receivableBalance
      ]_vars

\* the zero-value claim has linked channel c1, and the same claim, sent
\* again, is at the head of the queue
C19_Witness ==
    /\ inRun[Self].pc = "idle"
    /\ hasClaim(incoming[Self].state)
    /\ incoming[Self].state.channelId = "c1"
    /\ incoming[Self].state.spent = 0
    /\ receivableBalance[Self] = 0
    /\ store["c1"] = Self
    /\ incoming[Self].queue # <<>>
    /\ Head(incoming[Self].queue).kind = "validate"
    /\ Head(incoming[Self].queue).claim = SerializedClaim(incoming[Self].state)

\* C20: a validateClaim reducer always terminates.  It retries only while
\* attempts <= 20, so no call runs with attempts above 21.  A retry of an
\* otherwise valid claim whose channel is visible with a value that has
\* reached the claim's goes on to commit the claim over the channel just
\* fetched (registry lookup for a new channel, money handler otherwise, and
\* the accepted claim is cached when these are through); a retry that still
\* finds the channel absent or short retries again while attempts <= 20 and
\* otherwise ends with the prior state, balance and registry unchanged.
C20_ValidateClaimTerminates ==
    /\ [](inRun[Self].pc = "v_retry" => inRun[Self].attempts \in 1..(MaxAttempts + 1))
    /\ (inRun[Self].pc \in {"v_retry", "v_load", "v_money"}) ~> (inRun[Self].pc = "idle")
    /\ [][/\ ValidateAgain(Self) =>
            LET claim == inRun[Self].claim
                attempts == inRun[Self].attempts
                cachedChannel == incoming[Self].state
                channel == chain[claim.channelId]
                otherwiseValid ==
                    /\ IsDefined(cachedChannel) => claim.channelId = cachedChannel.channelId
                    /\ IsDefined(channel) =>
                        /\ ~IsDefined(cachedChannel) =>
                            /\ ToLowerCase(channel.receiver) = ToLowerCase(walletAddress)
                            /\ channel.disputePeriod >= minIncomingDisputePeriod
                        /\ claim.contractAddress = contractAddress
                        /\ claim.signature = SignDigest(channel.sender, contractAddress,
                                                        claim.channelId, claim.value)
                caughtUp == IsDefined(channel) /\ channel.value >= claim.value
            IN  otherwiseValid =>
                    IF caughtUp
                    THEN /\ inRun'[Self].pc =
                                IF IsDefined(cachedChannel) THEN "v_money" ELSE "v_load"
                         /\ inRun'[Self].claim = claim
                         /\ inRun'[Self].updated = channel
                    ELSE /\ incoming'[Self].state = cachedChannel
                         /\ receivableBalance' = receivableBalance
                         /\ IF attempts <= MaxAttempts
                            THEN /\ inRun'[Self].pc = "v_retry"
                                 /\ inRun'[Self].claim = claim
                                 /\ inRun'[Self].attempts = attempts + 1
                            ELSE inRun'[Self].pc = "idle"
          /\ ValidateMoney(Self, TRUE) =>
                incoming'[Self].state = AcceptedChannel(inRun[Self].updated, inRun[Self].claim)
          /\ (ValidateLoaded(Self) /\ store[inRun[Self].claim.channelId] = "") =>
                \/ inRun'[Self].pc = "v_money"
                \/ incoming'[Self].state =
                        AcceptedChannel(inRun[Self].updated, inRun[Self].claim)
         ]_vars

\* the reducer is in its last retry, and the deposit that covers the claim
\* has just reached the chain
C20_Witness ==
    /\ inRun[Self].pc = "v_retry"
    /\ inRun[Self].attempts = MaxAttempts + 1
    /\ hasClaim(incoming[Self].state)
    /\ inRun[Self].claim = PeerClaim("0xAA", "c1", 3 * HalfGwei)
    /\ incoming[Self].state.value < inRun[Self].claim.value
    /\ chain["c1"].value >= inRun[Self].claim.value

\* C21: a claim produced by the outgoing engine (the zero-value claim of
\* openChannel or a claim of createClaim) for a channel whose receiver is the
\* validating plugin's wallet, with an adequate dispute period and the same
\* contract, is accepted by validateClaim when the account has no cached
\* claim or the claim exceeds the cached spent: it passes every check, the
\* channel is linked, and the claim is cached.
C21_OutgoingClaimValidates ==
    [][LET B == "bob"
           cachedChannel == incoming[B].state
       IN  /\ RunValidate(B) =>
                LET claim == Head(incoming[B].queue).claim
                IN  (/\ claim.signature.signer = walletAddress
                     /\ ToLowerCase(chain[claim.channelId].receiver) = ToLowerCase(walletAddress)
                     /\ chain[claim.channelId].disputePeriod >= minIncomingDisputePeriod
                     /\ claim.contractAddress = contractAddress
                     /\ ~IsDefined(cachedChannel) \/ claim.value > cachedChannel.spent) =>
                        /\ inRun'[B].pc =
                                IF IsDefined(cachedChannel) THEN "v_money" ELSE "v_load"
                        /\ inRun'[B].claim = claim
           /\ ValidateLoaded(B) =>
                \/ inRun'[B].pc = "v_money"
                \/ /\ inRun'[B].pc = "idle"
                   /\ SerializedClaim(incoming'[B].state) = inRun[B].claim
           /\ ValidateMoney(B, TRUE) =>
                SerializedClaim(incoming'[B].state) = inRun[B].claim
      ]_vars

\* the receiving account caches a claim of 1 gwei that createClaim signed,
\* over the channel the outgoing engine opened
C21_Witness ==
    /\ hasClaim(incoming["bob"].state)
    /\ incoming["bob"].state.channelId = "o1"
    /\ incoming["bob"].state.spent = WeiPerGwei
    /\ incoming["bob"].state.signature =
            SignDigest(walletAddress, contractAddress, "o1", WeiPerGwei)
    /\ SerializedClaim(incoming["bob"].state) = SerializedClaim(outgoing.state)
    /\ store["o1"] = "bob"

\* C22: on the incoming queue a claimIfProfitable reducer (priority 1) added
\* while validateClaim reducers (priority 0) are pending is placed before all
\* of them and behind the claimIfProfitable reducers already pending, and the
\* running reducer is left alone; a validateClaim reducer is added at the
\* back; a reducer starts only when none is running, it is the head of the
\* queue, and no validateClaim starts while a claimIfProfitable is pending.
C22_ClaimJumpsValidationsNotTheRunning ==
    [][LET queue == incoming[Self].queue
           queue2 == incoming'[Self].queue
           claims == SelectSeq(queue, LAMBDA t : t.kind = "claim")
           others == SelectSeq(queue, LAMBDA t : t.kind # "claim")
       IN  /\ (Len(queue2) = Len(queue) + 1) =>
                /\ inRun'[Self] = inRun[Self]
                /\ incoming'[Self].state = incoming[Self].state
                /\ \E i \in 1..Len(queue2) :
                    /\ queue = SubSeq(queue2, 1, i - 1) \o SubSeq(queue2, i + 1, Len(queue2))
                    /\ IF queue2[i].kind = "claim"
                       THEN i = Len(claims) + 1 /\ queue = claims \o others
                       ELSE i = Len(queue2)
           /\ (Len(queue2) < Len(queue)) =>
                /\ inRun[Self].pc = "idle"
                /\ queue2 = Tail(queue)
                /\ Head(queue).kind = "validate" => claims = <<>>
           /\ (Len(queue2) = Len(queue)) => queue2 = queue
      ]_vars

\* a validateClaim reducer is running; the call of claimIfProfitable that
\* came after two claims to validate is ahead of them in the queue
C22_Witness ==
    /\ inRun[Self].pc = "v_money"
    /\ Len(incoming[Self].queue) = 3
    /\ incoming[Self].queue[1].kind = "claim"
    /\ incoming[Self].queue[2].kind = "validate"
    /\ incoming[Self].queue[3].kind = "validate"
    /\ incoming[Self].queue[2].claim # incoming[Self].queue[3].claim

\* C23: when a reducer fails (the transaction is not built or not
\* authorized, its submission throws, or the refresh gives up), the committed
\* state of its queue is the state before the reducer, the reducers pending
\* behind it stay queued and the queue is free to run them against that
\* state; the other queue of the account is not touched.
C23_FailedReducerKeepsPriorState ==
    [][/\ (\/ \E cause \in {"prepare", "authorize"} : OpenNotSent(cause)
           \/ OpenTx(FALSE)
           \/ OpenRefreshFails
           \/ DepositSetupFails) =>
            /\ outgoing' = outgoing
            /\ outRun' = IdleRun
            /\ <<incoming, inRun>>' = <<incoming, inRun>>
       /\ (\/ ClaimPrepareFails(Self)
           \/ ClaimTx(Self, FALSE)
           \/ ClaimRefreshFails(Self)) =>
            /\ incoming' = incoming
            /\ inRun'[Self] = IdleIn
            /\ <<outgoing, outRun>>' = <<outgoing, outRun>>
       /\ RunFund =>
            IF IsDefined(outgoing.state)
            THEN outRun'.pc = "dep_prepare" /\ outRun'.channel = outgoing.state
            ELSE outRun'.pc \in {"open_info", "open_tx"}
       /\ (RunClaim(Self) /\ IsDefined(incoming[Self].state)) => inRun'[Self].pc = "c_update"
      ]_vars

\* the open transaction and the claim transaction have both failed: no
\* channel was opened and the outgoing state is still empty, the incoming
\* claim is still cached, and on each queue a reducer is waiting
C23_Witness ==
    /\ [method |-> "open", channelId |-> "o1"] \in txLog
    /\ ~IsDefined(chain["o1"])
    /\ ~IsDefined(outgoing.state)
    /\ outRun.pc = "idle"
    /\ Len(outgoing.queue) > 0
    /\ Head(outgoing.queue).kind = "fund"
    /\ [method |-> "claim", channelId |-> "c1"] \in txLog
    /\ IsDefined(chain["c1"])
    /\ incoming[Self].state = StoredIncoming
    /\ inRun[Self].pc = "idle"
    /\ Len(incoming[Self].queue) > 0

\* C24: whenever validateClaim rejects (channel absent or closed, wrong
\* receiver, short dispute period, wrong channelId, negative value, wrong
\* contract, bad signature, insufficient channel value, channel linked
\* already, not a best claim), the reducer ends at once with the cached
\* incoming claim, receivableBalance and the registry unchanged, and the
\* money handler is not called.
C24_RejectionChangesNothing ==
    [][\A a \in Accounts :
        LET cachedChannel == incoming[a].state
            Unchanged ==
                /\ inRun'[a].pc = "idle"
                /\ incoming'[a].state = cachedChannel
                /\ receivableBalance' = receivableBalance
                /\ store' = store
            Rejects(claim, attempts) ==
                LET updatedChannel == FetchedChannel(cachedChannel, claim)
                IN  IF ~IsDefined(updatedChannel)
                    THEN IsDefined(cachedChannel) \/ attempts > MaxAttempts
                    ELSE \/ /\ ~IsDefined(cachedChannel)
                            /\ \/ ToLowerCase(updatedChannel.receiver)
                                    # ToLowerCase(walletAddress)
                               \/ updatedChannel.disputePeriod < minIncomingDisputePeriod
                         \/ /\ IsDefined(cachedChannel)
                            /\ claim.channelId # cachedChannel.channelId
                         \/ claim.value < 0
                         \/ claim.contractAddress # contractAddress
                         \/ claim.signature # SignDigest(updatedChannel.sender,
                                claim.contractAddress, claim.channelId, claim.value)
                         \/ updatedChannel.value < claim.value /\ attempts > MaxAttempts
                         \/ /\ IsDefined(cachedChannel)
                            /\ updatedChannel.value >= claim.value
                            /\ claim.value <= cachedChannel.spent
        IN  /\ (RunValidate(a) /\ Rejects(Head(incoming[a].queue).claim, 0)) => Unchanged
            /\ (ValidateAgain(a) /\ Rejects(inRun[a].claim, inRun[a].attempts)) => Unchanged
            /\ (ValidateLoaded(a) /\ store[inRun[a].claim.channelId] # "") => Unchanged
            /\ (/\ RunValidate(a) \/ ValidateAgain(a) \/ ValidateLoaded(a)
                /\ inRun'[a].pc = "idle"
                /\ incoming'[a].state = cachedChannel) => Unchanged
      ]_vars

\* the first claim of an account has passed every check but the last, and
\* the registry has its channel under the other account
C24_Witness ==
    /\ inRun["bob"].pc = "v_load"
    /\ store[inRun["bob"].claim.channelId] = Self
    /\ hasClaim(incoming[Self].state)
    /\ receivableBalance[Self] < 0
    /\ ~IsDefined(incoming["bob"].state)

\* C27: for a first claim that passed the earlier checks, the uniqueness
\* step rejects only if the registry has the channelId under another
\* account; if the channelId is unbound or bound to this same account the
\* claim proceeds (to the money handler, or to the commit of a zero-value
\* claim), and the registry has channelId -> this account before the
\* incoming state commit that relies on it.
C27_RegistryRejectsOnlyOtherAccounts ==
    [][\A a \in Accounts :
        /\ ValidateLoaded(a) =>
            LET claim == inRun[a].claim
            IN  IF store[claim.channelId] \notin {"", a}
                THEN /\ inRun'[a].pc = "idle"
                     /\ incoming'[a].state = incoming[a].state
                     /\ store' = store
                ELSE /\ store'[claim.channelId] = a
                     /\ \/ inRun'[a].pc = "v_money"
                        \/ incoming'[a].state = AcceptedChannel(inRun[a].updated, claim)
        /\ (~IsDefined(incoming[a].state) /\ IsDefined(incoming'[a].state)) =>
            store'[incoming'[a].state.channelId] = a
      ]_vars

\* C25: in every reachable state a cached incoming channel has this
\* wallet for receiver (whatever the case of the letters) and a dispute
\* period of at least minIncomingDisputePeriod; and a first claim for a
\* channel that fails either condition is rejected.
C25_CachedChannelPaysThisNode ==
    /\ [](\A a \in Accounts : IsDefined(incoming[a].state) =>
            /\ ToLowerCase(incoming[a].state.receiver) = ToLowerCase(walletAddress)
            /\ incoming[a].state.disputePeriod >= minIncomingDisputePeriod)
    /\ [][\A a \in Accounts :
            LET FirstClaimFails(claim) ==
                    /\ ~IsDefined(incoming[a].state)
                    /\ IsDefined(fetchChannel(claim.channelId))
                    /\ \/ ToLowerCase(fetchChannel(claim.channelId).receiver)
                            # ToLowerCase(walletAddress)
                       \/ fetchChannel(claim.channelId).disputePeriod
                            < minIncomingDisputePeriod
                Rejected ==
                    /\ inRun'[a].pc = "idle"
                    /\ incoming'[a].state = incoming[a].state
                    /\ receivableBalance' = receivableBalance
                    /\ store' = store
            IN  /\ (RunValidate(a) /\ FirstClaimFails(Head(incoming[a].queue).claim))
                        => Rejected
                /\ (/\ \E attempts \in 0..(MaxAttempts + 1) : ValidateRetry(a, attempts)
                    /\ FirstClaimFails(inRun[a].claim)) => Rejected
          ]_vars

\* C26: while an account's incoming state holds a claim its channelId never
\* changes: a claim that names another channelId is rejected, and a
\* different channel gets linked only from an empty incoming state (the
\* channel was claimed, or found absent on the chain).
C26_LinkedChannelIdIsFixed ==
    [][\A a \in Accounts :
        LET cachedChannel == incoming[a].state
            NamesAnother(claim) ==
                hasClaim(cachedChannel) /\ claim.channelId # cachedChannel.channelId
            Rejected ==
                /\ inRun'[a].pc = "idle"
                /\ incoming'[a].state = cachedChannel
                /\ receivableBalance' = receivableBalance
                /\ store' = store
        IN  /\ (hasClaim(cachedChannel) /\ IsDefined(incoming'[a].state)) =>
                    incoming'[a].state.channelId = cachedChannel.channelId
            /\ (/\ IsDefined(incoming'[a].state)
                /\ \/ ~IsDefined(cachedChannel)
                   \/ incoming'[a].state.channelId # cachedChannel.channelId) =>
                    /\ ~IsDefined(cachedChannel)
                    /\ inRun[a].pc \in {"v_load", "v_money"}
                    /\ incoming'[a].state.channelId = inRun[a].claim.channelId
            /\ (RunValidate(a) /\ NamesAnother(Head(incoming[a].queue).claim)) => Rejected
            /\ (/\ \E attempts \in 0..(MaxAttempts + 1) : ValidateRetry(a, attempts)
                /\ NamesAnother(inRun[a].claim)) => Rejected
      ]_vars

\* the first channel was claimed and closed, a second one is linked, and a
\* claim over the first is waiting to be validated against it
C26_Witness ==
    /\ hasClaim(incoming[Self].state)
    /\ incoming[Self].state.channelId = "c2"
    /\ store["c1"] = Self
    /\ [method |-> "claim", channelId |-> "c1"] \in txLog
    /\ incoming[Self].queue # <<>>
    /\ Head(incoming[Self].queue).kind = "validate"
    /\ Head(incoming[Self].queue).claim.channelId = "c1"
    /\ inRun[Self].pc = "idle"

\* C28: whenever an account (none is unloaded here) holds a cached incoming
\* claim, the timer of its channel watcher is active; in particular every
\* accepted claim leaves the timer active, also after ticks that stopped the
\* watcher, after claimIfProfitable runs and after disconnect.
C28_WatcherRunsWhileClaimHeld ==
    /\ [](\A a \in Accounts : hasClaim(incoming[a].state) => watcher[a].active)
    /\ [][\A a \in Accounts :
            (/\ ValidateLoaded(a) \/ \E ok \in BOOLEAN : ValidateMoney(a, ok)
             /\ hasClaim(incoming'[a].state)
             /\ incoming'[a].state # incoming[a].state) => watcher'[a].active
          ]_vars

\* C29: the channel watcher never causes a claim transaction for an incoming
\* channel that is present and not disputed when the
\* claimIfProfitable(requireDisputed = true) reducer refreshes it inside the
\* incoming queue, even if the tick that queued the reducer had seen the
\* channel disputed or absent: the reducer then ends with the refreshed
\* channel for state and submits nothing.
C29_WatcherClaimsOnlyDisputed ==
    [][\A a \in Accounts :
        LET cachedChannel == incoming[a].state
            onChain == chain[cachedChannel.channelId]
        IN  /\ (/\ ClaimUpdated(a)
                /\ inRun[a].requireDisputed
                /\ IsDefined(onChain)
                /\ ~onChain.disputed) =>
                    /\ inRun'[a].pc = "idle"
                    /\ txLog' = txLog
                    /\ incoming'[a].state =
                            [cachedChannel EXCEPT !.value = onChain.value,
                                                  !.sender = onChain.sender,
                                                  !.receiver = onChain.receiver,
                                                  !.disputePeriod = onChain.disputePeriod,
                                                  !.disputed = FALSE]
            /\ (/\ inRun[a].requireDisputed
                /\ [method |-> "claim", channelId |-> cachedChannel.channelId]
                        \in txLog' \ txLog) =>
                    /\ inRun[a].pc = "c_tx"
                    /\ inRun[a].updated.channelId = cachedChannel.channelId
                    /\ inRun[a].updated.disputed
            /\ (inRun[a].requireDisputed /\ inRun'[a].pc \in {"c_prepare", "c_tx"}) =>
                    inRun'[a].updated.disputed
      ]_vars

\* a reducer the watcher queued when it saw the channel disputed or gone is
\* about to refresh a channel that is on the chain and not disputed
C29_Witness ==
    /\ inRun[Self].pc = "c_update"
    /\ inRun[Self].requireDisputed
    /\ hasClaim(incoming[Self].state)
    /\ IsDefined(chain[incoming[Self].state.channelId])
    /\ ~chain[incoming[Self].state.channelId].disputed

\* C30: handling a channelDeposit message changes at most the value of the
\* cached incoming channel and never lowers it; spent, signature and
\* channelId stay; when the incoming channel was closed or replaced between
\* the poll outside the queue and the reconciliation inside it, the incoming
\* state is left as it is; and with no cached incoming channel the message
\* starts nothing.
C30_DepositOnlyRaisesValue ==
    [][\A a \in Accounts :
        LET newCachedChannel == incoming[a].state
            task == Head(incoming[a].queue)
            SameChannel ==
                /\ IsDefined(newCachedChannel)
                /\ newCachedChannel.channelId = task.channel.channelId
                /\ newCachedChannel.disputePeriod = task.channel.disputePeriod
                /\ newCachedChannel.sender = task.channel.sender
                /\ newCachedChannel.receiver = task.channel.receiver
            DepositPolls(ps) == {p \in ps : p.account = a /\ p.kind = "deposit"}
        IN  /\ RunReconcile(a) =>
                /\ IF SameChannel
                   THEN /\ incoming'[a].state =
                                [newCachedChannel EXCEPT !.value = incoming'[a].state.value]
                        /\ incoming'[a].state.value >= newCachedChannel.value
                        /\ incoming'[a].state.value >= task.value
                        /\ incoming'[a].state.value \in {newCachedChannel.value, task.value}
                   ELSE incoming'[a].state = newCachedChannel
                /\ UNCHANGED <<inRun, receivableBalance, store, watcher, chain, txLog>>
            /\ DepositPolls(polls') # DepositPolls(polls) =>
                /\ incoming'[a].state = newCachedChannel
                /\ UNCHANGED <<inRun, receivableBalance, store, watcher, chain, txLog>>
                /\ DepositPolls(polls') \ DepositPolls(polls) # {} =>
                    /\ IsDefined(newCachedChannel)
                    /\ incoming' = incoming
                    /\ \A p \in DepositPolls(polls') \ DepositPolls(polls) :
                            /\ p.channel.channelId = newCachedChannel.channelId
                            /\ p.channel.value = newCachedChannel.value
                /\ incoming'[a].queue # incoming[a].queue =>
                    /\ Len(incoming'[a].queue) = Len(incoming[a].queue) + 1
                    /\ \E i \in 1..Len(incoming'[a].queue) :
                            incoming'[a].queue[i].kind = "reconcile"
      ]_vars

\* a reconciliation is about to run for a deposit to the first channel, which
\* was claimed and closed since; a second channel is linked in its place
C30_Witness ==
    /\ inRun[Self].pc = "idle"
    /\ incoming[Self].queue # <<>>
    /\ Head(incoming[Self].queue).kind = "reconcile"
    /\ Head(incoming[Self].queue).channel.channelId = "c1"
    /\ hasClaim(incoming[Self].state)
    /\ incoming[Self].state.channelId = "c2"

\* C31: signing claims does not wait for a pending deposit. While a deposit
\* is under way, sendMoney queues its createClaim on the deposit side queue
\* (which starts with one createClaim for requests that came just before);
\* with a positive backlog and something left in the channel as it was
\* before the deposit, that reducer signs and sends a claim with
\* spent = prior spent + min(backlog in wei, remaining before the deposit),
\* and it does so before the deposit reducer returns: a pending side reducer
\* can run whatever the deposit is waiting for, and the deposit returns only
\* when the side queue it cleared has run all it had, which it does.
C31_ClaimsDuringDeposit ==
    /\ [][LET Depositing == outRun.pc \in {"dep_prepare", "dep_refresh"}
              Signed(cachedChannel) ==
                  LET spent == cachedChannel.spent
                                  + BigMin(GweiToWei(payoutAmount),
                                           cachedChannel.value - cachedChannel.spent)
                  IN  /\ lastSent' =
                              [channelId |-> cachedChannel.channelId,
                               contractAddress |-> cachedChannel.contractAddress,
                               value |-> spent,
                               signature |-> SignDigest(walletAddress,
                                                  cachedChannel.contractAddress,
                                                  cachedChannel.channelId, spent)]
                      /\ spent > cachedChannel.spent
              Backlog(cachedChannel) ==
                  /\ payoutAmount > 0
                  /\ IsDefined(cachedChannel)
                  /\ cachedChannel.value - cachedChannel.spent > 0
          IN  /\ (/\ \E amount \in {-1, 1} : SendMoney(amount) \/ HandleFulfill(amount)
                  /\ Depositing) =>
                    /\ depositQueue.exists
                    /\ depositQueue'.queue =
                            Append(depositQueue.queue, Task("createClaim"))
                    /\ depositQueue'.state = depositQueue.state
                    /\ UNCHANGED <<outgoing, outRun, lastSent>>
              /\ (~Depositing /\ outRun'.pc \in {"dep_prepare", "dep_refresh"}) =>
                    /\ depositQueue' = [exists |-> TRUE, state |-> outgoing.state,
                                        queue |-> <<Task("createClaim")>>]
                    /\ outRun'.channel = outgoing.state
              /\ (RunSideCreateClaim /\ Depositing /\ Backlog(depositQueue.state)) =>
                    /\ Signed(depositQueue.state)
                    /\ depositQueue'.state.spent = lastSent'.value
                    /\ depositQueue'.state.signature = lastSent'.signature
                    /\ outRun' = outRun
              /\ (RunDetachedCreateClaim /\ Backlog(outRun.side.state)) =>
                    /\ Signed(outRun.side.state)
                    /\ outRun'.side.state.spent = lastSent'.value
                    /\ outRun'.pc = "dep_wait"
              /\ (outRun.pc \in {"dep_refresh", "dep_wait"} /\ outRun'.pc = "idle") =>
                    /\ outRun.pc = "dep_wait"
                    /\ outRun.side.queue = <<>>
                    /\ IsDefined(outRun.side.state) =>
                            outgoing'.state.spent = outRun.side.state.spent
         ]_vars
    /\ []((outRun.pc \in {"dep_prepare", "dep_refresh"} /\ depositQueue.queue # <<>>)
            => ENABLED RunSideCreateClaim)
    /\ (outRun.pc = "dep_wait") ~> (outRun.pc = "dep_wait" /\ outRun.side.queue = <<>>)

\* the deposit transaction is mined and not yet confirmed, and the side queue
\* has signed and sent a claim above the one the outgoing queue holds
C31_Witness ==
    /\ outRun.pc = "dep_refresh"
    /\ depositQueue.exists
    /\ hasClaim(outgoing.state)
    /\ lastSent.channelId = outgoing.state.channelId
    /\ lastSent.value > outgoing.state.spent
    /\ depositQueue.state.spent = lastSent.value
    /\ depositQueue.state.value = outgoing.state.value

\* C32: a deposit side queue exists only while a depositToChannel reducer
\* is running on the outgoing queue, and at most one at a time; whenever
\* that reducer ends (success, authorize rejecting, the transaction failing,
\* the refresh timing out, or the contract or the gas price failing before
\* the transaction is built) the side queue has been cleared and removed,
\* so that a later sendMoney goes to the outgoing queue.
C32_SideQueueOnlyDuringDeposit ==
    /\ [](depositQueue.exists => outRun.pc \in {"dep_prepare", "dep_refresh"})
    /\ [](orphanQueues = <<>>)
    /\ [][/\ (/\ outRun.pc \in {"dep_prepare", "dep_refresh", "dep_wait"}
              /\ outRun'.pc = "idle") =>
                    /\ ~depositQueue'.exists
                    /\ depositQueue'.queue = <<>>
          /\ (/\ \E amount \in {-1, 1} : SendMoney(amount) \/ HandleFulfill(amount)
              /\ outRun.pc \notin {"dep_prepare", "dep_refresh"}) =>
                    /\ outgoing'.queue = Append(outgoing.queue, Task("createClaim"))
                    /\ depositQueue' = depositQueue
         ]_vars

\* C33: for an incoming channel, what has been debited from
\* receivableBalance for its claims never exceeds the spent of the cached
\* claim in gwei, rounded down: no part of a claim is credited twice, also
\* when the money handler fails after the debit and when the peer sends the
\* same claim again. (The account starts with receivableBalance 0 and
\* nothing else moves the balance here; a validateClaim that has debited and
\* not returned yet is not counted.)
C33_DebitsWithinCachedClaim ==
    \A a \in Accounts :
        (inRun[a].pc = "idle" /\ hasClaim(incoming[a].state)) =>
            0 - receivableBalance[a] <= WeiToGweiDown(incoming[a].state.spent)

====
